---- MODULE Spec2Model ----
(***************************************************************************)
(* A model of revm-jit: the function that FunctionCx::translate emits for  *)
(* an analysed bytecode, executed one IR step at a time, next to the       *)
(* reference interpreter run on the same inputs.                           *)
(*                                                                         *)
(* Scaling.  EVM words are 256 bits wide and the gas meters 64 bits; TLC's *)
(* integers are 32 bits.  Words are WordBytes bytes wide here, gas meters  *)
(* GasBits bits, and the dynamic jump table truncates to PcBits bits       *)
(* (u32 in the source).  Every wrapping operation wraps at the scaled      *)
(* width.  The stack keeps its real capacity, STACK_CAP = 1024.            *)
(***************************************************************************)
EXTENDS Integers, Sequences, FiniteSets, TLC

\* ------------------------------------------------------------------ bounds
WordBytes == 2
GasBits == 8
PcBits == 6
IsizeBits == 8
MaxCompiles == 3
MaxThreads == 3
MaxBackends == 2

WordBits == 8 * WordBytes
Modulus == 2 ^ WordBits
MaxWord == Modulus - 1
GasModulus == 2 ^ GasBits
PcModulus == 2 ^ PcBits
IsizeModulus == 2 ^ IsizeBits

\* --------------------------------------------------------------- constants
STACK_CAP == 1024

\* revm_interpreter::opcode, by the match arm of translate_inst that lowers it.
STOP == 0
ADD == 1
SUB == 3
DIV == 4
SDIV == 5
MOD == 6
SMOD == 7
SIGNEXTEND == 11
LT == 16
GT == 17
SLT == 18
SGT == 19
EQ == 20
ISZERO == 21
SHL == 27
SHR == 28
SAR == 29
UNKNOWN_21 == 33
CALLDATALOAD == 53
POP == 80
SSTORE == 85
JUMP == 86
JUMPI == 87
PC == 88
GAS == 90
JUMPDEST == 91
TSTORE == 93
PUSH0 == 95
PUSH1 == 96
PUSH32 == 127
DUP1 == 128
DUP16 == 143
SWAP1 == 144
SWAP16 == 159
LOG0 == 160
LOG4 == 164
CREATE == 240
CALL == 241
CALLCODE == 242
RETURN == 243
DELEGATECALL == 244
CREATE2 == 245
STATICCALL == 250
REVERT == 253
INVALID == 254
SELFDESTRUCT == 255

\* revm_primitives::SpecId
MERGE == 15
SHANGHAI == 16
CANCUN == 17

\* ------------------------------------------------------------ opcode table
\* op_info_map(spec_id): the opcodes this model knows, their static gas
\* (-1: dynamic, charged by the callback), and the spec-gated ones.
DivOps == {DIV, SDIV, MOD, SMOD}
CmpOps == {LT, GT, SLT, SGT, EQ}
ShiftOps == {SHL, SHR, SAR}
BinOps == {ADD, SUB, SIGNEXTEND} \cup DivOps \cup CmpOps \cup ShiftOps
UnOps == {ISZERO}
PushOps == {PC, GAS, PUSH0} \cup (PUSH1..PUSH32)
HostWriteOps == {SSTORE, TSTORE} \cup (LOG0..LOG4)
CallOps == {CALL, CALLCODE, DELEGATECALL, STATICCALL}
KnownOpcodes ==
    {STOP, POP, JUMP, JUMPI, JUMPDEST, CREATE, CREATE2, RETURN, REVERT, INVALID,
     SELFDESTRUCT, CALLDATALOAD}
        \cup BinOps \cup UnOps \cup PushOps \cup (DUP1..DUP16) \cup (SWAP1..SWAP16)
        \cup HostWriteOps \cup CallOps

StaticGasOf(opcode) ==
    CASE opcode \in {STOP, INVALID, RETURN, REVERT} -> 0
      [] opcode \in DivOps \cup {SIGNEXTEND} -> 5
      [] opcode \in (BinOps \ (DivOps \cup {SIGNEXTEND})) \cup UnOps -> 3
      [] opcode \in {POP, PC, GAS, PUSH0} -> 2
      [] opcode \in PUSH1..PUSH32 -> 3
      [] opcode = CALLDATALOAD -> 3
      [] opcode \in (DUP1..DUP16) \cup (SWAP1..SWAP16) -> 3
      [] opcode = JUMP -> 8
      [] opcode = JUMPI -> 10
      [] opcode = JUMPDEST -> 1
      [] opcode = TSTORE -> 100
      [] OTHER -> -1

IsDisabledIn(opcode, spec_id) ==
    \/ opcode = PUSH0 /\ spec_id < SHANGHAI
    \/ opcode = TSTORE /\ spec_id < CANCUN

ImmediateLen(opcode) ==
    IF opcode \in PUSH1..PUSH32 THEN opcode - PUSH0 ELSE 0

\* The number of words an opcode takes from the stack.
StackInputs(opcode) ==
    CASE opcode \in BinOps -> 2
      [] opcode \in UnOps \cup {POP, JUMP, SELFDESTRUCT, CALLDATALOAD} -> 1
      [] opcode \in {JUMPI, SSTORE, TSTORE, RETURN, REVERT} -> 2
      [] opcode \in LOG0..LOG4 -> 2 + (opcode - LOG0)
      [] opcode \in DUP1..DUP16 -> opcode - DUP1 + 1
      [] opcode \in SWAP1..SWAP16 -> opcode - SWAP1 + 2
      [] opcode = CREATE -> 3
      [] opcode = CREATE2 -> 4
      [] OTHER -> 0

\* -------------------------------------------------------- bytecode analyser
InstData(opcode, pc, spec_id) ==
    [opcode |-> opcode,
     pc |-> pc,
     flags |-> (IF opcode \notin KnownOpcodes THEN {"UNKNOWN"} ELSE {})
                 \cup (IF IsDisabledIn(opcode, spec_id) THEN {"DISABLED"} ELSE {}),
     data |-> pc + 1,
     static_gas |-> IF opcode \in KnownOpcodes THEN StaticGasOf(opcode) ELSE -1]

\* Pass 1: one InstData per opcode byte, skipping the immediate bytes.
RECURSIVE Decode(_, _, _, _)
Decode(raw, spec_id, pc, acc) ==
    IF pc >= Len(raw) THEN acc
    ELSE LET opcode == raw[pc + 1]
             imm_len == IF opcode \in KnownOpcodes THEN ImmediateLen(opcode) ELSE 0
         IN Decode(raw, spec_id, pc + 1 + imm_len,
                   Append(acc, InstData(opcode, pc, spec_id)))

RECURSIVE FromBeSlice(_, _, _)
FromBeSlice(raw, from, n) ==
    IF n = 0 THEN 0
    ELSE (FromBeSlice(raw, from, n - 1) * 256 + raw[from + n]) % Modulus

\* Bytecode::get_imm_of: the immediate of a push, or -1 (None) when the bytes
\* run past the end of the code.
GetImmOf(raw, data) ==
    LET n == ImmediateLen(data.opcode)
    IN IF data.pc + 1 + n > Len(raw) THEN -1 ELSE FromBeSlice(raw, data.pc + 1, n)

IsDiverging(data) ==
    \/ data.opcode \in {STOP, RETURN, REVERT, INVALID, SELFDESTRUCT, JUMP}
    \/ "INVALID_JUMP" \in data.flags

\* The code is padded so that it ends in a diverging instruction.
PadStop(insts, raw, spec_id) ==
    IF insts = <<>> \/ ~IsDiverging(insts[Len(insts)])
    THEN Append(insts, InstData(STOP, Len(raw), spec_id))
    ELSE insts

IsJump(data) == data.opcode \in {JUMP, JUMPI}

HasStaticPush(insts, j) == j > 1 /\ insts[j - 1].opcode \in PUSH1..PUSH32

\* The instruction index a pushed target resolves to, or 0.
ResolveTarget(raw, insts, j) ==
    LET imm == GetImmOf(raw, insts[j - 1])
        hits == {k \in DOMAIN insts :
                    insts[k].pc = imm /\ insts[k].opcode = JUMPDEST}
    IN IF imm >= 0 /\ imm < PcModulus /\ hits # {} THEN CHOOSE k \in hits : TRUE ELSE 0

\* Pass 2: jump resolution.
StaticJumpAnalysis(raw, insts) ==
    [i \in DOMAIN insts |->
        LET d == insts[i]
        IN IF IsJump(d) /\ HasStaticPush(insts, i)
           THEN IF ResolveTarget(raw, insts, i) # 0
                THEN [d EXCEPT !.flags = @ \cup {"STATIC_JUMP"},
                               !.data = ResolveTarget(raw, insts, i)]
                ELSE [d EXCEPT !.flags = @ \cup {"INVALID_JUMP"}]
           ELSE IF /\ d.opcode \in PUSH1..PUSH32
                   /\ i < Len(insts)
                   /\ IsJump(insts[i + 1])
                   /\ ResolveTarget(raw, insts, i + 1) # 0
                THEN [d EXCEPT !.flags = @ \cup {"SKIP_LOGIC"}]
                ELSE d]

HasDynamicJumps(insts) ==
    \E j \in DOMAIN insts : IsJump(insts[j]) /\ ~HasStaticPush(insts, j)

\* Dead-code marking: everything after a diverging instruction, up to the next
\* JUMPDEST.
MarkDeadCode(insts) ==
    [i \in DOMAIN insts |->
        IF \E t \in 1..(i - 1) :
              /\ IsDiverging(insts[t])
              /\ \A k \in (t + 1)..i : insts[k].opcode # JUMPDEST
        THEN [insts[i] EXCEPT !.flags = @ \cup {"DEAD_CODE"}]
        ELSE insts[i]]

\* Bytecode::new followed by Bytecode::analyze.
Analyze(raw, spec_id) ==
    LET decoded == PadStop(Decode(raw, spec_id, 0, <<>>), raw, spec_id)
        jumps == StaticJumpAnalysis(raw, decoded)
    IN [raw |-> raw,
        insts |-> MarkDeadCode(jumps),
        spec_id |-> spec_id,
        has_dynamic_jumps |-> HasDynamicJumps(decoded)]

\* ------------------------------------------------------------------ inputs
PUSH2 == PUSH1 + 1
DUP2 == DUP1 + 1
SWAP2 == SWAP1 + 1
LOG1 == LOG0 + 1

\* A target that only differs from the JUMPDEST at pc 5 above the jump
\* table's index width.
WideTarget == PcModulus + 5

Programs ==
    << <<>>,
       <<PUSH0>>,
       <<UNKNOWN_21>>,
       <<ADD, PUSH0>>,
       <<PUSH1, 3, JUMP, JUMPDEST>>,
       <<ISZERO, PUSH1, 5, JUMPI, PC, JUMPDEST>>,
       <<JUMPDEST, PUSH1, 0, JUMP>>,
       <<PUSH0, SWAP1>>,
       <<SWAP2>>,
       <<DUP2, POP, ISZERO>>,
       <<PUSH1, 4, DUP1, JUMP, JUMPDEST>>,
       <<JUMP, JUMPDEST, JUMPDEST>>,
       <<PUSH2, WideTarget \div 256, WideTarget % 256, DUP1, JUMP, JUMPDEST>>,
       <<SSTORE>>,
       <<TSTORE>>,
       <<LOG1>>,
       <<CREATE>>,
       <<CREATE2>>,
       <<SELFDESTRUCT>>,
       <<CALL>>,
       <<PUSH1, 9, JUMPI>>,
       <<STOP, ADD>>,
       <<PC, GAS, POP>>,
       <<PUSH1>>,
       <<PUSH1, 2, JUMPDEST, PUSH1, 1, SWAP1, SUB, DUP1, PUSH1, 2, JUMPI>>,
       <<RETURN>>,
       <<REVERT>>,
       <<INVALID>>,
       <<JUMPI, JUMPDEST>>,
       <<PUSH1, 0, SUB, STATICCALL>>,
       <<PUSH1, 5, DUP1, JUMP, PUSH1, JUMPDEST>>,
       <<SSTORE, PC>>,
       <<PUSH1, 4, JUMP, PC, JUMPDEST>> >>

HasOpcode(raw, ops) == \E i \in DOMAIN raw : raw[i] \in ops

HostOps == HostWriteOps \cup {CREATE, CREATE2, SELFDESTRUCT, RETURN, REVERT}

SpecIdsFor(raw) ==
    IF HasOpcode(raw, {PUSH0, TSTORE}) THEN {MERGE, SHANGHAI, CANCUN} ELSE {CANCUN}

StackLens == {0, 1, 2, 3, STACK_CAP - 1, STACK_CAP}
GasLimits == {0, 2, 11, 12, 40, GasModulus - 1}

\* The caller's stack: the words below the length are the caller's, the slots
\* above it are zeroed (EvmStack::new).
InitialStack(len) ==
    [i \in 0..(STACK_CAP - 1) |-> IF i < len THEN (i + 1) % 3 ELSE 0]

\* ------------------------------------------------------------------- state
VARIABLES
    bytecode,       \* the analysed Bytecode handed to translate
    disable_gas,    \* JitEvm.config.gas_disabled
    ecx,            \* EvmContext: is_static, and what the host answers
    stack,          \* EvmStack, STACK_CAP words
    stack_len,      \* the length behind the stack_len pointer
    gas,            \* pf::Gas: limit, remaining, remaining_nomem
    current_inst,   \* the instruction whose blocks are executing
    block,          \* the kind of block control is in
    ret,            \* the InstructionResult returned, "None" while running
    host,           \* the state-changing callbacks the host has served
    jump_index,     \* the phi of the dynamic jump table
    ub,             \* an access outside the stack has happened
    args,           \* the arguments the function was called with
    contract,       \* Contract: the call's input bytes
    jit,            \* JitEvm and its backend's module
    llvm,           \* the process: INIT and the threads inside new_inner
    visits          \* how often each instruction's entry block was entered

vars ==
    <<bytecode, disable_gas, ecx, stack, stack_len, gas, current_inst, block, ret,
      host, jump_index, ub, args, visits, contract, jit, llvm>>

env_vars == <<bytecode, disable_gas, ecx, args, contract, jit, llvm>>

Threads == 1..MaxThreads

\* A process in which no backend has been constructed: `static INIT: Once`
\* is incomplete, the initialisation body has never run, every thread is
\* outside new_inner.
ProcessStart ==
    [once |-> "incomplete", runs |-> 0, native |-> "none",
     pc |-> [t \in Threads |-> "outside"],
     init_result |-> [t \in Threads |-> "Ok"],
     built |-> [t \in Threads |-> 0]]

\* JitEvm::new over a fresh backend: an empty module, counter 0, no callback
\* declared, dumping off.  `calls` counts the compiles since the last
\* free_all_functions, `last` is what the last call did, `handed` the
\* symbols whose address was given to a caller, `declared` how many
\* declarations of each callback the backend's current module holds, `adds`
\* how often each was added since the last call of free_all_functions.
CallbackNames == {"Sstore", "Tstore", "Log", "Create", "SelfDestruct", "DoReturn"}

NoCall == [name |-> <<>>, steps |-> <<>>, result |-> "none"]

JitNew ==
    [function_counter |-> 0, callbacks |-> {}, out_dir |-> FALSE,
     dump_assembly |-> TRUE, dump_unopt_assembly |-> FALSE,
     module |-> <<>>, calls |-> 0, last |-> NoCall, handed |-> {},
     declared |-> [cb \in CallbackNames |-> 0],
     adds |-> [cb \in CallbackNames |-> 0]]

Data == bytecode.insts[current_inst]

Init ==
    \E p \in DOMAIN Programs :
    \E spec_id \in SpecIdsFor(Programs[p]) :
    \E dg \in BOOLEAN :
    \E is_static \in (IF HasOpcode(Programs[p], HostOps) THEN BOOLEAN ELSE {FALSE}) :
    \E host_fails \in (IF HasOpcode(Programs[p], HostOps) THEN BOOLEAN ELSE {FALSE}) :
    \E len \in StackLens :
    \E limit \in (IF dg THEN {GasModulus - 1} ELSE GasLimits) :
        /\ bytecode = Analyze(Programs[p], spec_id)
        /\ disable_gas = dg
        /\ ecx = [is_static |-> is_static, host_fails |-> host_fails]
        /\ stack = InitialStack(len)
        /\ stack_len = len
        /\ gas = [limit |-> limit, remaining |-> limit, remaining_nomem |-> limit]
        /\ current_inst = 0
        /\ block = "uncompiled"
        /\ ret = "None"
        /\ host = {}
        /\ jump_index = 0
        /\ ub = FALSE
        /\ args = [stack_len |-> len]
        /\ contract = [input |-> <<>>]
        /\ jit = JitNew
        /\ llvm = ProcessStart
        /\ visits = [i \in DOMAIN bytecode.insts |-> 0]

\* ----------------------------------------------------- translation, verify
\* How the last block translate_inst emits for instruction i ends: a return,
\* a branch, a conditional branch, or nothing at all.
Terminator(insts, i) ==
    LET d == insts[i]
        fall == IF i + 1 \in DOMAIN insts THEN "br" ELSE "none"
    IN CASE "DISABLED" \in d.flags \/ "UNKNOWN" \in d.flags -> "ret"
         [] "SKIP_LOGIC" \in d.flags -> fall
         [] d.opcode \in {STOP, INVALID, RETURN, REVERT, SELFDESTRUCT, CREATE, CREATE2}
              -> "ret"
         [] IsJump(d) ->
              IF "INVALID_JUMP" \in d.flags THEN "ret"
              ELSE IF d.opcode = JUMPI THEN "brif" ELSE "br"
         [] d.opcode \in CallOps -> "none"
         [] OTHER -> fall

IsLive(insts, i) == "DEAD_CODE" \notin insts[i].flags

\* Backend::verify_function: every block of the module ends in a terminator.
VerifyFunction(insts) ==
    \A i \in DOMAIN insts : IsLive(insts, i) => Terminator(insts, i) # "none"

\* ----------------------------------------------------------- control flow
\* Branch to inst_entries[k]: the entry block of k, or the shared
\* dynamic_jump_fail block when k is dead code.
Enter(k) ==
    /\ current_inst' = k
    /\ block' = IF IsLive(bytecode.insts, k) THEN "entry" ELSE "dynamic_jump_fail"
    /\ visits' = IF disable_gas THEN visits ELSE [visits EXCEPT ![k] = @ + 1]
    /\ ret' = ret

\* build_return / the failure block of build_failure.
Return(r) ==
    /\ ret' = r
    /\ block' = "ret"
    /\ UNCHANGED <<current_inst, visits>>

\* JitEvm::compile: translate, verify, and hand the function to the caller,
\* who calls it at once.
CompileBytecode ==
    /\ block = "uncompiled"
    /\ IF VerifyFunction(bytecode.insts)
       THEN Enter(1)
       ELSE /\ block' = "compile_error"
            /\ UNCHANGED <<current_inst, visits, ret>>
    /\ UNCHANGED <<env_vars, stack, stack_len, gas, host, jump_index, ub>>

\* ------------------------------------------------------ instruction prologue
\* A prologue that charges gas before it looks at the flags.
EntryKindGasFirst(d) == "gas"

\* Which of the first checks of translate_inst ends the instruction.
EntryKind(d) ==
    IF "DISABLED" \in d.flags THEN "NotActivated"
    ELSE IF "UNKNOWN" \in d.flags THEN "OpcodeNotFound"
    ELSE "gas"

\* A prologue that leaves a skipped instruction before charging it.
StaticGasDueSkipFirst(d, gas_disabled) ==
    IF gas_disabled \/ d.static_gas < 0 \/ "SKIP_LOGIC" \in d.flags THEN 0
    ELSE d.static_gas

\* A prologue that charges nothing when the stack is too short for the opcode.
StaticGasDueAfterStackCheck(d, gas_disabled) ==
    IF gas_disabled \/ d.static_gas < 0 \/ stack_len < StackInputs(d.opcode) THEN 0
    ELSE d.static_gas

\* A prologue that charges whether or not gas accounting is disabled.
StaticGasDueAlways(d, gas_disabled) ==
    IF d.static_gas < 0 THEN 0 ELSE d.static_gas

\* The amount gas_cost_imm is asked to charge for the instruction.
StaticGasDue(d, gas_disabled) ==
    IF gas_disabled \/ d.static_gas < 0 THEN 0 ELSE d.static_gas

\* An overflow check that is off by one.
UsubOverflowOffByOne(a, b) ==
    [res |-> (a - b) % GasModulus, overflow |-> a <= b]

UsubOverflow(a, b) ==
    [res |-> (a - b) % GasModulus, overflow |-> a < b]

\* The stores of gas_cost once the overflow check has passed; the first
\* variant is a deduction whose second meter stops at zero instead of wrapping.
GasCostSaturating(g, cost) ==
    [g EXCEPT !.remaining = UsubOverflow(g.remaining, cost).res,
              !.remaining_nomem = IF @ < cost THEN 0 ELSE @ - cost]

GasCost(g, cost) ==
    [g EXCEPT !.remaining = UsubOverflow(g.remaining, cost).res,
              !.remaining_nomem = (@ - cost) % GasModulus]

Disabled ==
    /\ block = "entry"
    /\ EntryKind(Data) = "NotActivated"
    /\ Return("NotActivated")
    /\ UNCHANGED <<env_vars, stack, stack_len, gas, host, jump_index, ub>>

Unknown ==
    /\ block = "entry"
    /\ EntryKind(Data) = "OpcodeNotFound"
    /\ Return("OpcodeNotFound")
    /\ UNCHANGED <<env_vars, stack, stack_len, gas, host, jump_index, ub>>

PayStaticGas ==
    /\ block = "entry"
    /\ EntryKind(Data) = "gas"
    /\ LET cost == StaticGasDue(Data, disable_gas)
       IN IF cost = 0
          THEN /\ block' = "logic"
               /\ UNCHANGED <<gas, ret, current_inst, visits>>
          ELSE IF UsubOverflow(gas.remaining, cost).overflow
          THEN /\ Return("OutOfGas")
               /\ UNCHANGED gas
          ELSE /\ gas' = GasCost(gas, cost)
               /\ block' = "logic"
               /\ UNCHANGED <<ret, current_inst, visits>>
    /\ UNCHANGED <<env_vars, stack, stack_len, host, jump_index, ub>>

\* A lowering that never skips an instruction's logic.
NeverSkipped(d) == FALSE

IsSkipped(d) == "SKIP_LOGIC" \in d.flags

SkipLogic ==
    /\ block = "logic"
    /\ IsSkipped(Data)
    /\ Enter(current_inst + 1)
    /\ UNCHANGED <<env_vars, stack, stack_len, gas, host, jump_index, ub>>

\* The opcode's own lowering runs.
Lowered(ops) ==
    /\ block = "logic"
    /\ ~IsSkipped(Data)
    /\ Data.opcode \in ops

\* ------------------------------------------------------------ stack checks
LoadLenAtLeastFails(len, n) == n > 0 /\ len < n

\* An overflow check against the capacity instead of the capacity less n.
LoadLenForPushLate(len, n) == len > STACK_CAP

LoadLenForPushFails(len, n) == len > STACK_CAP - n

\* The check that guards swap(n).
SwapCheckFails(len, n) == len < n

\* ---------------------------------------------------------------- opcodes
\* Two's-complement words: I256_MIN is the sign bit, -1 is MaxWord.
I256_MIN == Modulus \div 2

IsNeg(x) == x >= I256_MIN

Neg(x) == (Modulus - x) % Modulus

Abs(x) == IF IsNeg(x) THEN Neg(x) ELSE x

\* The backend's integer primitives, where LLVM defines them.
Udiv(lhs, rhs) == lhs \div rhs

Urem(lhs, rhs) == lhs % rhs

Sdiv(lhs, rhs) ==
    IF IsNeg(lhs) = IsNeg(rhs) THEN Abs(lhs) \div Abs(rhs)
    ELSE Neg(Abs(lhs) \div Abs(rhs))

Srem(lhs, rhs) ==
    IF IsNeg(lhs) THEN Neg(Abs(lhs) % Abs(rhs)) ELSE Abs(lhs) % Abs(rhs)

Ishl(lhs, rhs) == (lhs % (2 ^ (WordBits - rhs))) * (2 ^ rhs)

Ushr(lhs, rhs) == lhs \div (2 ^ rhs)

Sshr(lhs, rhs) ==
    (lhs \div (2 ^ rhs)) + (IF IsNeg(lhs) THEN Modulus - 2 ^ (WordBits - rhs) ELSE 0)

RECURSIVE Bitand(_, _)
Bitand(lhs, rhs) ==
    IF lhs = 0 \/ rhs = 0 THEN 0
    ELSE 2 * Bitand(lhs \div 2, rhs \div 2) + (lhs % 2) * (rhs % 2)

Bitnot(value) == MaxWord - value

Bitor(lhs, rhs) == lhs + rhs - Bitand(lhs, rhs)

Icmp(cond, lhs, rhs) ==
    CASE cond = "UnsignedLessThan" -> lhs < rhs
      [] cond = "UnsignedGreaterThan" -> lhs > rhs
      [] cond = "SignedLessThan" ->
            (lhs + I256_MIN) % Modulus < (rhs + I256_MIN) % Modulus
      [] cond = "SignedGreaterThan" ->
            (lhs + I256_MIN) % Modulus > (rhs + I256_MIN) % Modulus
      [] cond = "Equal" -> lhs = rhs

Zext(bit) == IF bit THEN 1 ELSE 0

\* Where LLVM leaves a primitive without a result: division and remainder by
\* zero and the overflowing signed pair are undefined behaviour, a shift by
\* the width or more is poison.
DivUndefined(lhs, rhs) == rhs = 0

SdivUndefined(lhs, rhs) == rhs = 0 \/ (lhs = I256_MIN /\ rhs = MaxWord)

ShiftUndefined(rhs) == rhs >= WordBits

\* The largest ext for which SIGNEXTEND has something to do is below this.
SignextendLimit == WordBytes - 1

\* A guard that also lets ext = SignextendLimit and above through.
SignextendAlways(ext) == TRUE

SignextendMightDoSomething(ext) == ext < SignextendLimit

\* The then-arm of SIGNEXTEND's lazy_select.
SignextendArm(ext, x) ==
    LET bit_index == ext * 8 + 7
        bit == Bitand(Ushr(x, bit_index), 1) # 0
        mask == Ishl(1, bit_index) - 1
    IN IF bit THEN Bitor(x, Bitnot(mask)) ELSE Bitand(x, mask)

IntCCOf(opcode) ==
    CASE opcode = LT -> "UnsignedLessThan"
      [] opcode = GT -> "UnsignedGreaterThan"
      [] opcode = SLT -> "SignedLessThan"
      [] opcode = SGT -> "SignedGreaterThan"
      [] opcode = EQ -> "Equal"

\* A binop! that hands its operands to the primitive the other way round.
BinOpResultRev(opcode, a, b) ==
    CASE opcode = ADD -> (b + a) % Modulus
      [] opcode = SUB -> (b - a) % Modulus
      [] opcode = DIV -> IF a = 0 THEN 0 ELSE Udiv(b, a)
      [] opcode = MOD -> IF a = 0 THEN 0 ELSE Urem(b, a)
      [] opcode = SMOD -> IF a = 0 THEN 0 ELSE Srem(b, a)
      [] opcode = SDIV ->
            IF a = 0 THEN 0
            ELSE IF b = I256_MIN /\ a = MaxWord THEN I256_MIN ELSE Sdiv(b, a)
      [] opcode = SIGNEXTEND ->
            IF SignextendMightDoSomething(b) THEN SignextendArm(b, a) ELSE a
      [] opcode \in CmpOps -> Zext(Icmp(IntCCOf(opcode), b, a))
      [] opcode = SHL -> IF ShiftUndefined(b) THEN 0 ELSE Ishl(a, b)
      [] opcode = SHR -> IF ShiftUndefined(b) THEN 0 ELSE Ushr(a, b)
      [] opcode = SAR -> IF ShiftUndefined(b) THEN 0 ELSE Sshr(a, b)

\* The word a two-operand opcode pushes, a on top of the stack and b below
\* it, where every primitive the lowering evaluates is defined.
BinOpResult(opcode, a, b) ==
    CASE opcode = ADD -> (a + b) % Modulus
      [] opcode = SUB -> (a - b) % Modulus
      [] opcode = DIV -> IF b = 0 THEN 0 ELSE Udiv(a, b)
      [] opcode = MOD -> IF b = 0 THEN 0 ELSE Urem(a, b)
      [] opcode = SMOD -> IF b = 0 THEN 0 ELSE Srem(a, b)
      [] opcode = SDIV ->
            IF b = 0 THEN 0
            ELSE IF a = I256_MIN /\ b = MaxWord THEN I256_MIN ELSE Sdiv(a, b)
      [] opcode = SIGNEXTEND ->
            IF SignextendMightDoSomething(a) THEN SignextendArm(a, b) ELSE b
      [] opcode \in CmpOps -> Zext(Icmp(IntCCOf(opcode), a, b))
      [] opcode = SHL -> Ishl(b, a)
      [] opcode = SHR -> Ushr(b, a)
      [] opcode = SAR -> Sshr(b, a)

\* The lowering evaluates a primitive outside its defined domain: binop!
\* (@if_not_zero) divides before its select, SDIV's else arm divides before
\* the select on the edge case, the shifts are not guarded at all.
EvaluatesUndefined(opcode, a, b) ==
    CASE opcode \in {DIV, MOD} -> DivUndefined(a, b)
      [] opcode = SMOD -> SdivUndefined(a, b)
      [] opcode = SDIV -> b # 0 /\ SdivUndefined(a, b)
      [] opcode \in ShiftOps -> ShiftUndefined(a)
      [] opcode = SIGNEXTEND ->
            SignextendMightDoSomething(a) /\ ShiftUndefined(a * 8 + 7)
      [] OTHER -> FALSE

\* What the build may leave in the slot after undefined behaviour or poison.
UndefinedWords == {0, 1, MaxWord}

BinOpOutcomes(opcode, a, b) ==
    IF EvaluatesUndefined(opcode, a, b) THEN UndefinedWords
    ELSE {BinOpResult(opcode, a, b)}

UnOpResult(opcode, a) == IF a = 0 THEN 1 ELSE 0

\* A lowering that returns InvalidFEOpcode from STOP too.
StopResultInvalid(opcode) == "InvalidFEOpcode"

\* The status STOP and INVALID return.
StopResult(opcode) == IF opcode = STOP THEN "Stop" ELSE "InvalidFEOpcode"

ExecStop ==
    /\ Lowered({STOP, INVALID})
    /\ Return(StopResult(Data.opcode))
    /\ UNCHANGED <<env_vars, stack, stack_len, gas, host, jump_index, ub>>

ExecBinop ==
    /\ Lowered(BinOps)
    /\ IF LoadLenAtLeastFails(stack_len, 2)
       THEN /\ Return("StackUnderflow")
            /\ UNCHANGED <<stack, stack_len, ub>>
       ELSE /\ \E r \in BinOpOutcomes(Data.opcode, stack[stack_len - 1],
                                      stack[stack_len - 2]) :
                  stack' = [stack EXCEPT ![stack_len - 2] = r]
            /\ stack_len' = stack_len - 1
            /\ ub' = (ub \/ EvaluatesUndefined(Data.opcode, stack[stack_len - 1],
                                               stack[stack_len - 2]))
            /\ Enter(current_inst + 1)
    /\ UNCHANGED <<env_vars, gas, host, jump_index>>

ExecUnop ==
    /\ Lowered(UnOps)
    /\ IF LoadLenAtLeastFails(stack_len, 1)
       THEN /\ Return("StackUnderflow")
            /\ UNCHANGED <<stack, stack_len>>
       ELSE /\ stack' = [stack EXCEPT ![stack_len - 1] = UnOpResult(Data.opcode, @)]
            /\ UNCHANGED stack_len
            /\ Enter(current_inst + 1)
    /\ UNCHANGED <<env_vars, gas, host, jump_index, ub>>

ExecPop ==
    /\ Lowered({POP})
    /\ IF LoadLenAtLeastFails(stack_len, 1)
       THEN /\ Return("StackUnderflow")
            /\ UNCHANGED stack_len
       ELSE /\ stack_len' = stack_len - 1
            /\ Enter(current_inst + 1)
    /\ UNCHANGED <<env_vars, stack, gas, host, jump_index, ub>>

\* The word a value-pushing opcode pushes.
PushedValue(d) ==
    CASE d.opcode = PUSH0 -> 0
      [] d.opcode = PC -> d.pc % Modulus
      [] d.opcode = GAS -> gas.remaining
      [] OTHER -> IF GetImmOf(bytecode.raw, d) < 0 THEN 0 ELSE GetImmOf(bytecode.raw, d)

ExecPush ==
    /\ Lowered(PushOps)
    /\ IF LoadLenForPushFails(stack_len, 1)
       THEN /\ Return("StackOverflow")
            /\ UNCHANGED <<stack, stack_len>>
       ELSE /\ stack' = [stack EXCEPT ![stack_len] = PushedValue(Data)]
            /\ stack_len' = stack_len + 1
            /\ Enter(current_inst + 1)
    /\ UNCHANGED <<env_vars, gas, host, jump_index, ub>>

ExecDup ==
    /\ Lowered(DUP1..DUP16)
    /\ LET n == Data.opcode - DUP1 + 1
       IN IF LoadLenAtLeastFails(stack_len, n)
          THEN /\ Return("StackUnderflow")
               /\ UNCHANGED <<stack, stack_len>>
          ELSE IF LoadLenForPushFails(stack_len, 1)
          THEN /\ Return("StackOverflow")
               /\ UNCHANGED <<stack, stack_len>>
          ELSE /\ stack' = [stack EXCEPT ![stack_len] = stack[stack_len - n]]
               /\ stack_len' = stack_len + 1
               /\ Enter(current_inst + 1)
    /\ UNCHANGED <<env_vars, gas, host, jump_index, ub>>

\* What a load from outside the stack allocation may yield.
OutOfBoundsWords == {0, MaxWord}

\* A stack pointer one slot further from the top.
SpFromTopBelow(len, n) == len - n - 1

\* sp_from_top: &stack[len - n].
SpFromTop(len, n) == len - n

\* swap(n) exchanges stack[len - 1] and stack[len - (n + 1)]; with len = n the
\* second address lies one word below the stack.
ExecSwap ==
    /\ Lowered(SWAP1..SWAP16)
    /\ LET n == Data.opcode - SWAP1 + 1
           a_sp == SpFromTop(stack_len, n + 1)
           b_sp == SpFromTop(stack_len, 1)
       IN IF SwapCheckFails(stack_len, n)
          THEN /\ Return("StackUnderflow")
               /\ UNCHANGED <<stack, ub>>
          ELSE IF a_sp >= 0
          THEN /\ stack' = [stack EXCEPT ![b_sp] = stack[a_sp], ![a_sp] = stack[b_sp]]
               /\ UNCHANGED ub
               /\ Enter(current_inst + 1)
          ELSE /\ \E a \in OutOfBoundsWords : stack' = [stack EXCEPT ![b_sp] = a]
               /\ ub' = TRUE
               /\ Enter(current_inst + 1)
    /\ UNCHANGED <<env_vars, stack_len, gas, host, jump_index>>

\* ------------------------------------------------------------ calldata
Umin(lhs, rhs) == IF lhs < rhs THEN lhs ELSE rhs

\* The word a load reads from WordBytes bytes of a little-endian target.
LoadWord(bytes) ==
    LET RECURSIVE le(_)
        le(i) == IF i > WordBytes THEN 0 ELSE bytes[i] + 256 * le(i + 1)
    IN le(1)

\* llvm.bswap on a word.
Bswap(value) ==
    LET RECURSIVE rev(_, _, _)
        rev(v, n, acc) ==
            IF n = 0 THEN acc ELSE rev(v \div 256, n - 1, (acc * 256) + (v % 256))
    IN rev(value, WordBytes, 0)

\* A bounds test on the index reduced to the pointer width.
InBoundsReduced(index, len) == index % IsizeModulus < len

\* icmp(UnsignedLessThan, index, zext(input.len)) on whole words.
InBounds(index, len) == index < len

\* The in-bounds arm: a zeroed word-sized slot, memcpy of
\* umin(len - index, 32) bytes from input.ptr + index, load, bswap.
CalldataSlice(input, index) ==
    LET calldata == index % IsizeModulus
        slice_len == Umin(Len(input) - index, WordBytes) % IsizeModulus
        tmp == [i \in 1..WordBytes |->
                   IF i <= slice_len THEN input[calldata + i] ELSE 0]
    IN Bswap(LoadWord(tmp))

CalldataloadWord(input, index) ==
    IF InBounds(index, Len(input)) THEN CalldataSlice(input, index) ELSE 0

ExecCalldataload ==
    /\ Lowered({CALLDATALOAD})
    /\ IF LoadLenAtLeastFails(stack_len, 1)
       THEN /\ Return("StackUnderflow")
            /\ UNCHANGED stack
       ELSE /\ stack' = [stack EXCEPT ![stack_len - 1] =
                            CalldataloadWord(contract.input, @)]
            /\ Enter(current_inst + 1)
    /\ UNCHANGED <<env_vars, stack_len, gas, host, jump_index, ub>>

ExecJumpdest ==
    /\ Lowered({JUMPDEST})
    /\ Enter(current_inst + 1)
    /\ UNCHANGED <<env_vars, stack, stack_len, gas, host, jump_index, ub>>

\* ------------------------------------------------------------------ jumps
ToJumpTable(target) ==
    /\ jump_index' = target
    /\ block' = "dynamic_jump_table"
    /\ UNCHANGED <<current_inst, visits, ret>>

\* A branch that takes the jump on a zero condition.
JumpiTakenOnZero(cond_word) == cond_word = 0

\* icmp_imm(NotEqual, cond_word, 0)
JumpiTaken(cond_word) == cond_word # 0

\* A lowering that sends every jump through the jump table.
IsStaticNever(flags) == FALSE

\* let is_static = data.flags.contains(InstrFlags::STATIC_JUMP)
IsStatic(flags) == "STATIC_JUMP" \in flags

ExecJump ==
    /\ Lowered({JUMP, JUMPI})
    /\ IF "INVALID_JUMP" \in Data.flags
       THEN /\ Return("InvalidJump")
            /\ UNCHANGED <<stack_len, jump_index>>
       ELSE IF IsStatic(Data.flags)
       THEN /\ UNCHANGED jump_index
            /\ IF Data.opcode = JUMP
               THEN /\ Enter(Data.data)
                    /\ UNCHANGED stack_len
               ELSE IF LoadLenAtLeastFails(stack_len, 1)
               THEN /\ Return("StackUnderflow")
                    /\ UNCHANGED stack_len
               ELSE /\ stack_len' = stack_len - 1
                    /\ IF JumpiTaken(stack[stack_len - 1])
                       THEN Enter(Data.data)
                       ELSE Enter(current_inst + 1)
       ELSE \* Dynamic jump: the target is popped first, then the condition.
            IF LoadLenAtLeastFails(stack_len, 1)
            THEN /\ Return("StackUnderflow")
                 /\ UNCHANGED <<stack_len, jump_index>>
            ELSE IF Data.opcode = JUMP
            THEN /\ stack_len' = stack_len - 1
                 /\ ToJumpTable(stack[stack_len - 1])
            ELSE IF LoadLenAtLeastFails(stack_len - 1, 1)
            THEN /\ stack_len' = stack_len - 1
                 /\ Return("StackUnderflow")
                 /\ UNCHANGED jump_index
            ELSE /\ stack_len' = stack_len - 2
                 /\ IF JumpiTaken(stack[stack_len - 2])
                    THEN ToJumpTable(stack[stack_len - 1])
                    ELSE Enter(current_inst + 1) /\ UNCHANGED jump_index
    /\ UNCHANGED <<env_vars, stack, gas, host, ub>>

\* ireduce(u32, index)
Ireduce(index) == index % PcModulus

\* The switch over the pcs of the live JUMPDESTs.
SwitchTargets(insts, index) ==
    {k \in DOMAIN insts :
        IsLive(insts, k) /\ insts[k].opcode = JUMPDEST /\ insts[k].pc = index}

DynamicJumpTable ==
    /\ block = "dynamic_jump_table"
    /\ IF ~bytecode.has_dynamic_jumps
       THEN /\ ub' = TRUE
            /\ block' = "unreachable"
            /\ UNCHANGED <<current_inst, visits, ret>>
       ELSE /\ UNCHANGED ub
            /\ LET hits == SwitchTargets(bytecode.insts, Ireduce(jump_index))
               IN IF hits = {}
                  THEN /\ block' = "dynamic_jump_fail"
                       /\ UNCHANGED <<current_inst, visits, ret>>
                  ELSE Enter(CHOOSE k \in hits : TRUE)
    /\ UNCHANGED <<env_vars, stack, stack_len, gas, host, jump_index>>

DynamicJumpFail ==
    /\ block = "dynamic_jump_fail"
    /\ IF ~bytecode.has_dynamic_jumps
       THEN /\ ub' = TRUE
            /\ block' = "unreachable"
            /\ UNCHANGED <<current_inst, visits, ret>>
       ELSE /\ UNCHANGED ub
            /\ Return("InvalidJump")
    /\ UNCHANGED <<env_vars, stack, stack_len, gas, host, jump_index>>

\* ------------------------------------------------------------------- host
\* A lowering without the static-call guard.
NoStaticcallGuard(is_static) == FALSE

FailIfStaticcall(is_static) == is_static

\* What callback_ir returns from when the callback does not answer Continue.
HostFailure == "FatalExternalError"

\* The status a status-returning callback hands back.
HostAnswer == IF ecx.host_fails THEN HostFailure ELSE "Continue"

\* A callback_ir that never takes its failure block.
CallbackFailureNever(callback_ret) == FALSE

\* callback_ir: icmp_imm(NotEqual, ret, Continue) decides between the failure
\* block, which returns ret, and the rest of the instruction.
CallbackFailure(callback_ret) == callback_ret # "Continue"

\* Every returning opcode served by the DoReturn callback.
CallbackNameDoReturn(opcode) == "DoReturn"

CallbackName(opcode) ==
    CASE opcode = SSTORE -> "Sstore"
      [] opcode = TSTORE -> "Tstore"
      [] opcode \in LOG0..LOG4 -> "Log"
      [] opcode \in {CREATE, CREATE2} -> "Create"
      [] opcode = SELFDESTRUCT -> "SelfDestruct"
      [] OTHER -> "DoReturn"

\* call_common: what it emits for each call kind, which is nothing; the arm
\* ends in goto_return!(no_branch).
CallCommon(call_kind) == [callback |-> "none", returns |-> "none"]

\* SSTORE, TSTORE, LOGn: guard, pop_sp, callback, fall through.
ExecHostWrite ==
    /\ Lowered(HostWriteOps)
    /\ IF FailIfStaticcall(ecx.is_static)
       THEN /\ Return("StateChangeDuringStaticCall")
            /\ UNCHANGED <<stack_len, host>>
       ELSE IF LoadLenAtLeastFails(stack_len, StackInputs(Data.opcode))
       THEN /\ Return("StackUnderflow")
            /\ UNCHANGED <<stack_len, host>>
       ELSE /\ stack_len' = stack_len - StackInputs(Data.opcode)
            /\ host' = host \cup {CallbackName(Data.opcode)}
            /\ IF Data.opcode # TSTORE /\ CallbackFailure(HostAnswer)
               THEN Return(HostAnswer)
               ELSE Enter(current_inst + 1)
    /\ UNCHANGED <<env_vars, stack, gas, jump_index, ub>>

\* CREATE, CREATE2, SELFDESTRUCT: guard, pop_sp, callback_ir, return.
ExecCreate ==
    /\ Lowered({CREATE, CREATE2, SELFDESTRUCT})
    /\ IF FailIfStaticcall(ecx.is_static)
       THEN /\ Return("StateChangeDuringStaticCall")
            /\ UNCHANGED <<stack_len, host>>
       ELSE IF LoadLenAtLeastFails(stack_len, StackInputs(Data.opcode))
       THEN /\ Return("StackUnderflow")
            /\ UNCHANGED <<stack_len, host>>
       ELSE /\ stack_len' = stack_len - StackInputs(Data.opcode)
            /\ host' = host \cup {CallbackName(Data.opcode)}
            /\ Return(IF CallbackFailure(HostAnswer) THEN HostAnswer
                      ELSE IF Data.opcode = SELFDESTRUCT THEN "SelfDestruct"
                      ELSE "CallOrCreate")
    /\ UNCHANGED <<env_vars, stack, gas, jump_index, ub>>

\* RETURN, REVERT: pop_sp(2), callback_ir(DoReturn), return.
ExecReturn ==
    /\ Lowered({RETURN, REVERT})
    /\ IF LoadLenAtLeastFails(stack_len, 2)
       THEN /\ Return("StackUnderflow")
            /\ UNCHANGED <<stack_len, host>>
       ELSE /\ stack_len' = stack_len - 2
            /\ host' = host \cup {CallbackName(Data.opcode)}
            /\ Return(IF CallbackFailure(HostAnswer) THEN HostAnswer
                      ELSE IF Data.opcode = RETURN THEN "Return" ELSE "Revert")
    /\ UNCHANGED <<env_vars, stack, gas, jump_index, ub>>

\* ---------------------------------------------------- reference interpreter
\* revm_interpreter run on the raw bytes: the run every test compares the
\* compiled function with.  A state is the pc, the stack, and the gas left.
\* Words as the integers they stand for, and back.
ToSigned(x) == IF x >= I256_MIN THEN x - Modulus ELSE x

FromSigned(n) == n % Modulus

\* The quotient rounded towards zero.
TruncDiv(n, d) ==
    LET q == (IF n < 0 THEN -n ELSE n) \div (IF d < 0 THEN -d ELSE d)
    IN IF (n < 0) = (d < 0) THEN q ELSE -q

\* instructions::arithmetic, bitwise: op1 is the top of the stack, op2 the
\* word below it, which receives the result.
EvmBinOp(opcode, op1, op2) ==
    CASE opcode = ADD -> (op1 + op2) % Modulus
      [] opcode = SUB -> (op1 - op2) % Modulus
      [] opcode = DIV -> IF op2 = 0 THEN 0 ELSE op1 \div op2
      [] opcode = MOD -> IF op2 = 0 THEN 0 ELSE op1 % op2
      [] opcode = SDIV ->
            IF op2 = 0 THEN 0
            ELSE FromSigned(TruncDiv(ToSigned(op1), ToSigned(op2)))
      [] opcode = SMOD ->
            IF op2 = 0 THEN 0
            ELSE FromSigned(ToSigned(op1)
                    - ToSigned(op2) * TruncDiv(ToSigned(op1), ToSigned(op2)))
      [] opcode = SIGNEXTEND ->
            IF op1 >= WordBytes - 1 THEN op2
            ELSE LET low == op2 % (2 ^ (8 * op1 + 8))
                 IN IF low >= 2 ^ (8 * op1 + 7)
                    THEN low + Modulus - 2 ^ (8 * op1 + 8)
                    ELSE low
      [] opcode = LT -> IF op1 < op2 THEN 1 ELSE 0
      [] opcode = GT -> IF op1 > op2 THEN 1 ELSE 0
      [] opcode = SLT -> IF ToSigned(op1) < ToSigned(op2) THEN 1 ELSE 0
      [] opcode = SGT -> IF ToSigned(op1) > ToSigned(op2) THEN 1 ELSE 0
      [] opcode = EQ -> IF op1 = op2 THEN 1 ELSE 0
      [] opcode = SHL ->
            IF op1 >= WordBits THEN 0
            ELSE (op2 % (2 ^ (WordBits - op1))) * (2 ^ op1)
      [] opcode = SHR -> IF op1 >= WordBits THEN 0 ELSE op2 \div (2 ^ op1)
      [] opcode = SAR ->
            IF op1 >= WordBits THEN (IF ToSigned(op2) < 0 THEN MaxWord ELSE 0)
            ELSE FromSigned(ToSigned(op2) \div (2 ^ op1))

InterpInputs(opcode) ==
    CASE opcode \in SWAP1..SWAP16 -> opcode - SWAP1 + 2
      [] opcode \in {CALL, CALLCODE} -> 7
      [] opcode \in {DELEGATECALL, STATICCALL} -> 6
      [] OTHER -> StackInputs(opcode)

InterpOutputs(opcode) ==
    IF opcode \in PushOps \cup (DUP1..DUP16) THEN 1 ELSE 0

IsValidJump(raw, spec_id, dest) ==
    \E d \in {Decode(raw, spec_id, 0, <<>>)[k] :
                 k \in DOMAIN Decode(raw, spec_id, 0, <<>>)} :
        d.pc = dest /\ d.opcode = JUMPDEST

InterpHalt(s, r) == [s EXCEPT !.ret = r]

\* One instruction of the interpreter's loop.
InterpStep(raw, spec_id, env, s) ==
    IF s.pc >= Len(raw) THEN InterpHalt(s, "Stop")
    ELSE
    LET opcode == raw[s.pc + 1]
        static_gas == IF opcode \in KnownOpcodes THEN StaticGasOf(opcode) ELSE -1
        cost == IF static_gas < 0 THEN 0 ELSE static_gas
        paid == [s EXCEPT !.remaining = @ - cost]
        top == s.len - 1
        next_pc == s.pc + 1 + ImmediateLen(opcode)
        imm == FromBeSlice(raw, s.pc + 1,
                           IF next_pc > Len(raw) THEN Len(raw) - s.pc - 1
                           ELSE ImmediateLen(opcode))
    IN IF opcode \notin KnownOpcodes THEN InterpHalt(s, "OpcodeNotFound")
       ELSE IF IsDisabledIn(opcode, spec_id) THEN InterpHalt(s, "NotActivated")
       ELSE IF opcode \in HostWriteOps \cup {CREATE, CREATE2, SELFDESTRUCT} /\ env.is_static
       THEN InterpHalt(s, "StateChangeDuringStaticCall")
       ELSE IF s.remaining < cost THEN InterpHalt(s, "OutOfGas")
       ELSE IF s.len < InterpInputs(opcode) THEN InterpHalt(paid, "StackUnderflow")
       ELSE IF InterpOutputs(opcode) = 1 /\ s.len + 1 > STACK_CAP
       THEN InterpHalt(paid, "StackOverflow")
       ELSE
       CASE opcode = STOP -> InterpHalt(paid, "Stop")
         [] opcode = INVALID -> InterpHalt(paid, "InvalidFEOpcode")
         [] opcode \in BinOps ->
              [paid EXCEPT !.pc = next_pc, !.len = s.len - 1,
                  !.stack[top - 1] = EvmBinOp(opcode, s.stack[top], s.stack[top - 1])]
         [] opcode \in UnOps ->
              [paid EXCEPT !.pc = next_pc, !.stack[top] = UnOpResult(opcode, s.stack[top])]
         [] opcode = POP -> [paid EXCEPT !.pc = next_pc, !.len = s.len - 1]
         [] opcode \in PushOps ->
              [paid EXCEPT !.pc = next_pc, !.len = s.len + 1,
                  !.stack[s.len] = CASE opcode = PUSH0 -> 0
                                     [] opcode = PC -> s.pc % Modulus
                                     [] opcode = GAS -> paid.remaining
                                     [] OTHER -> imm]
         [] opcode \in DUP1..DUP16 ->
              [paid EXCEPT !.pc = next_pc, !.len = s.len + 1,
                  !.stack[s.len] = s.stack[s.len - (opcode - DUP1 + 1)]]
         [] opcode \in SWAP1..SWAP16 ->
              [paid EXCEPT !.pc = next_pc,
                  !.stack[top] = s.stack[top - (opcode - SWAP1 + 1)],
                  !.stack[top - (opcode - SWAP1 + 1)] = s.stack[top]]
         [] opcode = JUMPDEST -> [paid EXCEPT !.pc = next_pc]
         [] opcode = JUMP ->
              IF IsValidJump(raw, spec_id, s.stack[top])
              THEN [paid EXCEPT !.pc = s.stack[top], !.len = s.len - 1]
              ELSE InterpHalt([paid EXCEPT !.len = s.len - 1], "InvalidJump")
         [] opcode = JUMPI ->
              IF s.stack[top - 1] = 0
              THEN [paid EXCEPT !.pc = next_pc, !.len = s.len - 2]
              ELSE IF IsValidJump(raw, spec_id, s.stack[top])
              THEN [paid EXCEPT !.pc = s.stack[top], !.len = s.len - 2]
              ELSE InterpHalt([paid EXCEPT !.len = s.len - 2], "InvalidJump")
         [] opcode \in HostWriteOps ->
              IF opcode # TSTORE /\ env.host_fails
              THEN InterpHalt([paid EXCEPT !.len = s.len - InterpInputs(opcode)],
                              HostFailure)
              ELSE [paid EXCEPT !.pc = next_pc, !.len = s.len - InterpInputs(opcode)]
         [] opcode \in {CREATE, CREATE2, SELFDESTRUCT, RETURN, REVERT} ->
              InterpHalt([paid EXCEPT !.len = s.len - InterpInputs(opcode)],
                         IF env.host_fails THEN HostFailure
                         ELSE CASE opcode = SELFDESTRUCT -> "SelfDestruct"
                                [] opcode = RETURN -> "Return"
                                [] opcode = REVERT -> "Revert"
                                [] OTHER -> "CallOrCreate")
         [] OTHER ->
              InterpHalt([paid EXCEPT !.len = s.len - InterpInputs(opcode)],
                         "CallOrCreate")

RECURSIVE InterpRun(_, _, _, _)
InterpRun(raw, spec_id, env, s) ==
    IF s.ret # "None" THEN s ELSE InterpRun(raw, spec_id, env, InterpStep(raw, spec_id, env, s))

\* The interpreter's result on the inputs the compiled function was called
\* with.
Interpreted ==
    InterpRun(bytecode.raw, bytecode.spec_id, ecx,
              [pc |-> 0, stack |-> InitialStack(args.stack_len), len |-> args.stack_len,
               remaining |-> gas.limit, ret |-> "None"])

\* ----------------------------------------------------------- specification
Next ==
    \/ CompileBytecode
    \/ Disabled
    \/ Unknown
    \/ PayStaticGas
    \/ SkipLogic
    \/ ExecStop
    \/ ExecBinop
    \/ ExecUnop
    \/ ExecPop
    \/ ExecPush
    \/ ExecDup
    \/ ExecSwap
    \/ ExecJumpdest
    \/ ExecJump
    \/ DynamicJumpTable
    \/ DynamicJumpFail
    \/ ExecHostWrite
    \/ ExecCreate
    \/ ExecReturn

Spec == Init /\ [][Next]_vars

\* The scheduler runs the compiled function to its return.
FairSpec == Init /\ [][Next]_vars /\ WF_vars(Next)

\* ---------------------------------------------- the two gas meters apart
\* The gas record is the caller's: the function reads remaining and
\* remaining_nomem through the pointer it is handed, whatever they hold.
GasPrograms == {<<PUSH0, POP>>, <<PUSH1, 1, PUSH1, 2, ADD>>, <<JUMPDEST, PUSH0>>}

GasInit ==
    \E raw \in GasPrograms :
    \E remaining \in GasLimits :
    \E remaining_nomem \in GasLimits :
    \E dg \in BOOLEAN :
        /\ bytecode = Analyze(raw, CANCUN)
        /\ disable_gas = dg
        /\ ecx = [is_static |-> FALSE, host_fails |-> FALSE]
        /\ stack = InitialStack(0)
        /\ stack_len = 0
        /\ gas = [limit |-> GasModulus - 1, remaining |-> remaining,
                  remaining_nomem |-> remaining_nomem]
        /\ current_inst = 0
        /\ block = "uncompiled"
        /\ ret = "None"
        /\ host = {}
        /\ jump_index = 0
        /\ ub = FALSE
        /\ args = [stack_len |-> 0, remaining |-> remaining,
                   remaining_nomem |-> remaining_nomem]
        /\ contract = [input |-> <<>>]
        /\ jit = JitNew
        /\ llvm = ProcessStart
        /\ visits = [i \in DOMAIN bytecode.insts |-> 0]

GasNext ==
    \/ CompileBytecode
    \/ PayStaticGas
    \/ ExecPush
    \/ ExecPop
    \/ ExecBinop
    \/ ExecJumpdest
    \/ ExecStop

GasSpec == GasInit /\ [][GasNext]_vars

\* ------------------------------------------------- arithmetic on its own
\* The words the two-operand opcodes are tried on: small values, the byte and
\* word sign bits and their neighbours, and shift amounts around the width.
ArithWords ==
    {0, 1, 2, 3, 5, 7, 8, 127, 128, 255, 256,
     WordBytes - 1, WordBytes, WordBits - 1, WordBits, WordBits + 1,
     I256_MIN - 1, I256_MIN, I256_MIN + 1, I256_MIN + 128, MaxWord - 255,
     MaxWord - 127, MaxWord - 2, MaxWord - 1, MaxWord}

\* tests::bytecode_binop / bytecode_unop: the opcode alone, its operands
\* already on the stack, a on top of b.
ArithInit ==
    \E opcode \in BinOps \cup UnOps :
    \E a \in ArithWords :
    \E b \in ArithWords :
        /\ bytecode = Analyze(<<opcode>>, CANCUN)
        /\ disable_gas = FALSE
        /\ ecx = [is_static |-> FALSE, host_fails |-> FALSE]
        /\ stack = [i \in 0..(STACK_CAP - 1) |->
                        IF i = 0 THEN b ELSE IF i = 1 THEN a ELSE 0]
        /\ stack_len = 2
        /\ gas = [limit |-> GasModulus - 1, remaining |-> GasModulus - 1,
                  remaining_nomem |-> GasModulus - 1]
        /\ current_inst = 0
        /\ block = "uncompiled"
        /\ ret = "None"
        /\ host = {}
        /\ jump_index = 0
        /\ ub = FALSE
        /\ args = [stack_len |-> 2, a |-> a, b |-> b]
        /\ contract = [input |-> <<>>]
        /\ jit = JitNew
        /\ llvm = ProcessStart
        /\ visits = [i \in DOMAIN bytecode.insts |-> 0]

ArithNext ==
    \/ CompileBytecode
    \/ PayStaticGas
    \/ ExecBinop
    \/ ExecUnop
    \/ ExecStop

ArithSpec == ArithInit /\ [][ArithNext]_vars

\* ---------------------------------------------------- calldata on its own
\* Inputs shorter than a word, of a word, and longer; the last byte differs
\* from the rest, no byte is zero.
CalldataInputs ==
    {[i \in 1..n |-> IF i = n THEN 170 ELSE i] : n \in 0..(WordBytes + 2)}

\* Indexes inside, at and past the end, and ones that only differ from an
\* inside index above the pointer width.
CalldataIndexes ==
    (0..(WordBytes + 3)) \cup {IsizeModulus, IsizeModulus + 1, I256_MIN, MaxWord}

\* tests::calldata: the index on the stack, then CALLDATALOAD.
CalldataInit ==
    \E input \in CalldataInputs :
    \E index \in CalldataIndexes :
    \E len \in {0, 1, 2} :
        /\ bytecode = Analyze(<<CALLDATALOAD>>, CANCUN)
        /\ disable_gas = FALSE
        /\ ecx = [is_static |-> FALSE, host_fails |-> FALSE]
        /\ stack = [i \in 0..(STACK_CAP - 1) |->
                        IF i = len - 1 THEN index ELSE IF i < len THEN 7 ELSE 0]
        /\ stack_len = len
        /\ gas = [limit |-> GasModulus - 1, remaining |-> GasModulus - 1,
                  remaining_nomem |-> GasModulus - 1]
        /\ current_inst = 0
        /\ block = "uncompiled"
        /\ ret = "None"
        /\ host = {}
        /\ jump_index = 0
        /\ ub = FALSE
        /\ args = [stack_len |-> len, index |-> index]
        /\ contract = [input |-> input]
        /\ jit = JitNew
        /\ llvm = ProcessStart
        /\ visits = [i \in DOMAIN bytecode.insts |-> 0]

CalldataNext ==
    \/ CompileBytecode
    \/ PayStaticGas
    \/ ExecCalldataload
    \/ ExecStop

CalldataSpec == CalldataInit /\ [][CalldataNext]_vars

\* ------------------------------------------------------ the compiler driver
exec_vars ==
    <<bytecode, disable_gas, ecx, args, contract, stack, stack_len, gas,
      current_inst, block, ret, host, jump_index, ub, visits>>

run_vars == <<exec_vars, llvm>>

\* JitEvm::new_name: format!("evm_bytecode_{}", function_counter).
NewName(function_counter) == <<"evm_bytecode", function_counter>>

\* A driver that verifies before it dumps anything.
CompileStepsVerifyFirst(out_dir, dump_assembly, dump_unopt_assembly) ==
    <<"translate", "verify">>
    \o (IF out_dir THEN <<"dump unopt IR">> ELSE <<>>)
    \o (IF out_dir /\ dump_assembly /\ dump_unopt_assembly
        THEN <<"dump unopt disasm">> ELSE <<>>)
    \o <<"optimize">>
    \o (IF out_dir THEN <<"dump opt IR">> ELSE <<>>)
    \o (IF out_dir /\ dump_assembly THEN <<"dump opt disasm">> ELSE <<>>)
    \o <<"finalize">>

\* The steps of compile_bytecode after build_function, in the order of the
\* code; with an output directory the unoptimised IR is dumped before verify.
CompileSteps(out_dir, dump_assembly, dump_unopt_assembly) ==
    <<"translate">>
    \o (IF out_dir THEN <<"dump unopt IR">> ELSE <<>>)
    \o <<"verify">>
    \o (IF out_dir /\ dump_assembly /\ dump_unopt_assembly
        THEN <<"dump unopt disasm">> ELSE <<>>)
    \o <<"optimize">>
    \o (IF out_dir THEN <<"dump opt IR">> ELSE <<>>)
    \o (IF out_dir /\ dump_assembly THEN <<"dump opt disasm">> ELSE <<>>)
    \o <<"finalize">>

\* JitEvmLlvmBackend::verify_function: module.verify(), whatever the name.
ModuleVerifies(module) == \A i \in DOMAIN module : module[i].ok

\* Whether a step returns an error: translate never does, verify does when
\* the module is malformed, the others when the backend or the file system
\* fails there.
StepFails(step, module, fail) ==
    CASE step = "translate" -> FALSE
      [] step = "verify" -> ~ModuleVerifies(module)
      [] OTHER -> step = fail

\* The `?` after each step: the steps that run, the failing one last.
RECURSIVE RunSteps(_, _, _)
RunSteps(steps, module, fail) ==
    IF steps = <<>> THEN <<>>
    ELSE IF StepFails(Head(steps), module, fail) THEN <<Head(steps)>>
    ELSE <<Head(steps)>> \o RunSteps(Tail(steps), module, fail)

\* The callbacks translate declares in the module and caches.
DeclaredCallbacks(insts) ==
    {CallbackName(insts[i].opcode) :
        i \in {k \in DOMAIN insts : IsLive(insts, k) /\ insts[k].opcode \in HostOps}}

\* A cache that declares the callback at every use.
CallbacksGetAlways(cache, used) == used

\* Callbacks::get over the callbacks an instruction stream uses: the ones
\* get_or_insert_with declares through add_callback_function, which are those
\* the cache does not hold.
CallbacksGet(cache, used) == used \ cache

DriverPrograms == {<<PUSH0>>, <<CALL>>, <<SSTORE>>}

\* The bytecodes compiled when only the callback cache is looked at.
CachePrograms == {<<SSTORE>>, <<LOG0>>, <<SSTORE, LOG0>>}

\* parse_bytecode of each bytecode the driver is given, worked out once.
Parsed == [raw \in DriverPrograms \cup CachePrograms |-> Analyze(raw, CANCUN)]

StepFailures ==
    {"none", "dump unopt IR", "dump unopt disasm", "optimize", "dump opt IR",
     "dump opt disasm", "finalize"}

\* JitEvm::compile: parse, new_name, build_function, then the steps.
Compile(raw, fail) ==
    /\ Len(jit.module) < MaxCompiles
    /\ LET bc == Parsed[raw]
           name == NewName(jit.function_counter)
           module == Append(jit.module, [name |-> name, ok |-> VerifyFunction(bc.insts)])
           run == RunSteps(CompileSteps(jit.out_dir, jit.dump_assembly,
                                        jit.dump_unopt_assembly), module, fail)
           error == StepFails(run[Len(run)], module, fail)
           added == CallbacksGet(jit.callbacks, DeclaredCallbacks(bc.insts))
       IN jit' = [jit EXCEPT !.function_counter = @ + 1,
                             !.callbacks = @ \cup DeclaredCallbacks(bc.insts),
                             !.declared = [cb \in CallbackNames |->
                                              IF cb \in added THEN @[cb] + 1 ELSE @[cb]],
                             !.adds = [cb \in CallbackNames |->
                                          IF cb \in added THEN @[cb] + 1 ELSE @[cb]],
                             !.module = module,
                             !.calls = @ + 1,
                             !.last = [name |-> name, steps |-> run,
                                       result |-> IF error THEN "error" ELSE "ok"],
                             !.handed = IF error THEN @ ELSE @ \cup {name}]
    /\ UNCHANGED run_vars

FreeFailures == {"none", "remove_module", "create_module", "create_engine"}

\* JitEvm::free_all_functions over JitEvmLlvmBackend::free_all_functions:
\* the cache and the counter are reset, then the backend removes the module
\* from the engine, makes a new module and a new engine, each with `?`.
FreeAllFunctions(fail) ==
    /\ jit' = [jit EXCEPT !.callbacks = {},
                          !.function_counter = 0,
                          !.calls = 0,
                          !.module = IF fail \in {"remove_module", "create_module"}
                                     THEN @ ELSE <<>>,
                          !.last = [name |-> <<>>, steps |-> <<"free_all_functions">>,
                                    result |-> IF fail = "none" THEN "ok" ELSE "error"],
                          !.handed = IF fail \in {"remove_module", "create_module"}
                                     THEN @ ELSE {},
                          !.declared = IF fail \in {"remove_module", "create_module"}
                                       THEN @ ELSE [cb \in CallbackNames |-> 0],
                          !.adds = [cb \in CallbackNames |-> 0]]
    /\ UNCHANGED run_vars

SetDumpTo(output_dir) ==
    /\ jit' = [jit EXCEPT !.out_dir = output_dir]
    /\ UNCHANGED run_vars

DumpAssembly(yes) ==
    /\ jit' = [jit EXCEPT !.dump_assembly = yes]
    /\ UNCHANGED run_vars

DumpUnoptAssembly(yes) ==
    /\ jit' = [jit EXCEPT !.dump_unopt_assembly = yes]
    /\ UNCHANGED run_vars

\* No compiled function is running.
NotRunning ==
    /\ bytecode = Analyze(<<>>, CANCUN)
    /\ disable_gas = FALSE
    /\ ecx = [is_static |-> FALSE, host_fails |-> FALSE]
    /\ stack = [i \in 0..(STACK_CAP - 1) |-> 0]
    /\ stack_len = 0
    /\ gas = [limit |-> 0, remaining |-> 0, remaining_nomem |-> 0]
    /\ current_inst = 0
    /\ block = "uncompiled"
    /\ ret = "None"
    /\ host = {}
    /\ jump_index = 0
    /\ ub = FALSE
    /\ args = [stack_len |-> 0]
    /\ contract = [input |-> <<>>]
    /\ visits = [i \in DOMAIN bytecode.insts |-> 0]

DriverInit ==
    /\ NotRunning
    /\ jit = JitNew
    /\ llvm = ProcessStart

DriverNext ==
    \/ \E raw \in DriverPrograms : \E fail \in StepFailures : Compile(raw, fail)
    \/ \E fail \in FreeFailures : FreeAllFunctions(fail)
    \/ \E output_dir \in BOOLEAN : SetDumpTo(output_dir)
    \/ \E yes \in BOOLEAN : DumpAssembly(yes)
    \/ \E yes \in BOOLEAN : DumpUnoptAssembly(yes)

DriverSpec == DriverInit /\ [][DriverNext]_vars

\* The callback cache on its own: compiles of bytecodes that use callbacks,
\* some of them failing after translate, and free_all_functions.
CacheStepFailures == {"none", "optimize", "finalize"}

CacheNext ==
    \/ \E raw \in CachePrograms : \E fail \in CacheStepFailures : Compile(raw, fail)
    \/ \E fail \in FreeFailures : FreeAllFunctions(fail)

CacheSpec == DriverInit /\ [][CacheNext]_vars

\* ------------------------------------------------- backend construction
\* A gate that lets in every caller that finds the initialisation unfinished.
EntersBodyUnlessComplete(once) == once # "complete"

\* Once::call_once: the caller that finds the Once incomplete runs the body.
EntersBody(once) == once = "incomplete"

\* new_inner up to INIT.call_once: `let mut init_result = Ok(())`, then the
\* caller runs the body, blocks while another thread runs it, or passes.
CallOnce(t) ==
    /\ llvm.pc[t] = "outside"
    /\ llvm.built[t] < MaxBackends
    /\ llvm' = [llvm EXCEPT
                   !.init_result[t] = "Ok",
                   !.once = IF EntersBody(llvm.once) THEN "running" ELSE @,
                   !.pc[t] = IF EntersBody(llvm.once) THEN "body"
                             ELSE IF llvm.once = "running" THEN "blocked"
                             ELSE "past_gate"]
    /\ UNCHANGED <<exec_vars, jit>>

\* The closure: handlers installed, Target::initialize_native, its result
\* stored in the caller's init_result; the Once is complete on return.
InitBody(t, native) ==
    /\ llvm.pc[t] = "body"
    /\ llvm' = [llvm EXCEPT !.runs = @ + 1,
                            !.native = native,
                            !.init_result[t] = native,
                            !.once = "complete",
                            !.pc[t] = "past_gate"]
    /\ UNCHANGED <<exec_vars, jit>>

\* A caller blocked in call_once returns once the body has completed.
Unblock(t) ==
    /\ llvm.pc[t] = "blocked"
    /\ llvm.once = "complete"
    /\ llvm' = [llvm EXCEPT !.pc[t] = "past_gate"]
    /\ UNCHANGED <<exec_vars, jit>>

\* `init_result?` and the rest of new_inner.
Construct(t) ==
    /\ llvm.pc[t] = "past_gate"
    /\ llvm' = [llvm EXCEPT !.pc[t] = "outside",
                            !.built[t] = @ + 1,
                            !.init_result[t] = IF @ = "Ok" THEN "Ok" ELSE "returned Err"]
    /\ UNCHANGED <<exec_vars, jit>>

GateInit ==
    /\ NotRunning
    /\ jit = JitNew
    /\ llvm = ProcessStart

GateNext ==
    \E t \in Threads :
        \/ CallOnce(t)
        \/ \E native \in {"Ok", "Err"} : InitBody(t, native)
        \/ Unblock(t)
        \/ Construct(t)

GateSpec == GateInit /\ [][GateNext]_vars

\* ------------------------------------------------------------------ claims
Returned == block = "ret"

GasSpent == gas.limit - gas.remaining

\* C1: with gas metering on, the compiled function returns the same code, the
\* same stack[..len] and the same gas spent as the reference interpreter run
\* on the same bytecode, spec id, initial stack and gas.
C1_SameAsInterpreter ==
    (Returned /\ ~disable_gas) =>
        LET ref == Interpreted
        IN /\ ret = ref.ret
           /\ stack_len = ref.len
           /\ \A i \in 0..(stack_len - 1) : stack[i] = ref.stack[i]
           /\ GasSpent = gas.limit - ref.remaining

NeedsWords(d) ==
    IF IsJump(d) /\ "STATIC_JUMP" \in d.flags
    THEN StackInputs(d.opcode) - 1
    ELSE StackInputs(d.opcode)

StaticGuarded(d) == d.opcode \in HostWriteOps \cup {CREATE, CREATE2, SELFDESTRUCT}

\* C3: an opcode that needs k words, lowered with fewer than k on the stack,
\* returns StackUnderflow and leaves the length and every slot as they were.
C3_UnderflowLeavesStack ==
    [][(/\ Lowered(KnownOpcodes)
        /\ ~(StaticGuarded(Data) /\ ecx.is_static)
        /\ stack_len < NeedsWords(Data))
       => (ret' = "StackUnderflow" /\ stack_len' = stack_len /\ stack' = stack)]_vars

\* C4: a value-pushing opcode reached with 1024 words on the stack returns
\* StackOverflow, writes no slot and leaves the length unchanged.
C4_OverflowLeavesStack ==
    [][(/\ block = "logic"
        /\ Data.opcode \in PushOps \cup (DUP1..DUP16)
        /\ stack_len = STACK_CAP)
       => (ret' = "StackOverflow" /\ stack_len' = stack_len /\ stack' = stack)]_vars

\* C5: charging a static gas g > 0 returns OutOfGas and leaves both meters
\* alone when less than g remains; otherwise remaining drops by g and the
\* instruction goes on.
C5_StaticGasCharge ==
    [][(/\ block = "entry"
        /\ EntryKind(Data) = "gas"
        /\ ~disable_gas
        /\ Data.static_gas > 0)
       => IF gas.remaining < Data.static_gas
          THEN ret' = "OutOfGas" /\ block' = "ret" /\ gas' = gas
          ELSE /\ gas'.remaining = gas.remaining - Data.static_gas
               /\ gas'.limit = gas.limit
               /\ ret' = "None"
               /\ block' = "logic"
               /\ current_inst' = current_inst]_vars

\* Some charges went through and a later one was refused.
C5_Witness ==
    /\ Returned
    /\ ret = "OutOfGas"
    /\ 0 < gas.remaining
    /\ gas.remaining < gas.limit

\* How often instruction i ran past its gas charge.
Executions(i) ==
    visits[i] - (IF ret = "OutOfGas" /\ current_inst = i THEN 1 ELSE 0)

ChargeOf(d, with_skipped) ==
    IF \/ "DISABLED" \in d.flags
       \/ "UNKNOWN" \in d.flags
       \/ d.static_gas < 0
       \/ (~with_skipped /\ IsSkipped(d))
    THEN 0
    ELSE d.static_gas

RECURSIVE StaticGasOfRun(_, _)
StaticGasOfRun(i, with_skipped) ==
    IF i = 0 THEN 0
    ELSE Executions(i) * ChargeOf(bytecode.insts[i], with_skipped)
            + StaticGasOfRun(i - 1, with_skipped)

OnlyStaticallyPriced ==
    \A i \in DOMAIN bytecode.insts :
        visits[i] > 0 => \/ bytecode.insts[i].static_gas >= 0
                         \/ "DISABLED" \in bytecode.insts[i].flags
                         \/ "UNKNOWN" \in bytecode.insts[i].flags

\* C6 (as stated): the gas charged is the sum of the static gas of the executed
\* opcodes that are neither disabled nor skipped (SKIP_LOGIC).
C6_SumWithoutSkipped ==
    (Returned /\ ~disable_gas /\ OnlyStaticallyPriced) =>
        GasSpent = StaticGasOfRun(Len(bytecode.insts), FALSE)

\* C6 (amended): with gas metering on, the gas charged is the sum of the static
\* gas of every executed opcode that is not disabled, SKIP_LOGIC pushes
\* included, once per execution.
C6_SumWithSkipped ==
    (Returned /\ ~disable_gas /\ OnlyStaticallyPriced) =>
        GasSpent = StaticGasOfRun(Len(bytecode.insts), TRUE)

\* A loop ran more than once, through a skipped push, and the run stopped.
C6_Witness ==
    /\ Returned
    /\ ~disable_gas
    /\ ret = "Stop"
    /\ \E i \in DOMAIN bytecode.insts : visits[i] > 1 /\ IsSkipped(bytecode.insts[i])

\* C7: a disabled opcode returns NotActivated and an unknown byte
\* OpcodeNotFound, with no gas charged and the stack and its length untouched.
C7_DisabledUnknown ==
    [][(/\ block = "entry"
        /\ ("DISABLED" \in Data.flags \/ "UNKNOWN" \in Data.flags))
       => (/\ ret' = IF "DISABLED" \in Data.flags THEN "NotActivated"
                     ELSE "OpcodeNotFound"
           /\ block' = "ret"
           /\ gas' = gas
           /\ stack' = stack
           /\ stack_len' = stack_len)]_vars

\* A disabled opcode was refused after earlier opcodes had been charged.
C7_Witness ==
    /\ Returned
    /\ ret = "NotActivated"
    /\ ~disable_gas
    /\ GasSpent > 0
    /\ current_inst > 1

\* C8: in a static call SSTORE, TSTORE, LOGn, CREATE, CREATE2 and SELFDESTRUCT
\* return StateChangeDuringStaticCall before any pop and any callback.
C8_StaticCallGuard ==
    [][(/\ Lowered(KnownOpcodes)
        /\ StaticGuarded(Data)
        /\ ecx.is_static)
       => (/\ ret' = "StateChangeDuringStaticCall"
           /\ block' = "ret"
           /\ stack_len' = stack_len
           /\ stack' = stack
           /\ host' = host)]_vars

\* The guard fired with enough words on the stack for the opcode to go on.
C8_Witness ==
    /\ Returned
    /\ ret = "StateChangeDuringStaticCall"
    /\ ecx.is_static
    /\ stack_len >= 4
    /\ host = {}

\* C9: no execution returns Continue, and the blocks of every translated
\* instruction end in a return or in a branch to another instruction's block.
C9_EveryPathEnds ==
    /\ ret # "Continue"
    /\ block # "uncompiled" =>
          \A i \in DOMAIN bytecode.insts :
              IsLive(bytecode.insts, i) => Terminator(bytecode.insts, i) # "none"

\* C10: every execution of a compiled function eventually returns a status,
\* whatever the bytecode and the configuration, gas_disabled included.
C10_Terminates == <>(block \in {"ret", "compile_error"})

StackErrors == {"StackUnderflow", "StackOverflow"}

\* C11: the static gas of an instruction is charged before any of its stack
\* checks: a run that returns a stack error has paid for every instruction it
\* entered, the failing one included, so with less gas than that left it
\* returns OutOfGas instead.
C11_GasBeforeStackCheck ==
    (Returned /\ ~disable_gas /\ ret \in StackErrors /\ OnlyStaticallyPriced) =>
        /\ visits[current_inst] > 0
        /\ GasSpent = StaticGasOfRun(Len(bytecode.insts), TRUE)
        /\ GasSpent >= ChargeOf(Data, TRUE)

\* ADD on an empty stack returned StackUnderflow with exactly 3 gas spent.
C11_Witness ==
    /\ Returned
    /\ ~disable_gas
    /\ ret = "StackUnderflow"
    /\ Data.opcode = ADD
    /\ current_inst = 1
    /\ args.stack_len = 0
    /\ GasSpent = 3

\* Instruction i is a PUSHn whose immediate is the pc of a JUMPDEST and whose
\* successor is a JUMP or a JUMPI, read off the raw bytes.
FeedsStaticJump(i) ==
    /\ i \in DOMAIN bytecode.insts
    /\ bytecode.insts[i].opcode \in PUSH1..PUSH32
    /\ i < Len(bytecode.insts)
    /\ IsJump(bytecode.insts[i + 1])
    /\ \E k \in DOMAIN bytecode.insts :
          /\ bytecode.insts[k].opcode = JUMPDEST
          /\ bytecode.insts[k].pc = GetImmOf(bytecode.raw, bytecode.insts[i])

\* C12: a PUSHn that feeds a resolved static JUMP or JUMPI pays its static gas
\* but writes no slot and keeps the stack length; the jump after it leaves
\* every slot alone and lowers the length only by the JUMPI condition.
C12_SkippedPushFrame ==
    [][/\ (FeedsStaticJump(current_inst) /\ block = "entry" /\ ~disable_gas
              /\ gas.remaining >= bytecode.insts[current_inst].static_gas)
          => (/\ gas'.remaining =
                    gas.remaining - bytecode.insts[current_inst].static_gas
              /\ bytecode.insts[current_inst].static_gas > 0
              /\ block' = "logic"
              /\ stack' = stack
              /\ stack_len' = stack_len)
       /\ (FeedsStaticJump(current_inst) /\ block = "logic")
          => (/\ stack' = stack
              /\ stack_len' = stack_len
              /\ gas' = gas
              /\ block' = "entry"
              /\ current_inst' = current_inst + 1)
       /\ (FeedsStaticJump(current_inst - 1) /\ block = "logic"
              /\ stack_len >= NeedsWords(bytecode.insts[current_inst]))
          => (/\ stack' = stack
              /\ stack_len' = stack_len
                    - (IF bytecode.insts[current_inst].opcode = JUMPI THEN 1 ELSE 0)
              /\ ret' = "None")]_vars

\* [PUSH1 3, JUMP, JUMPDEST] stopped with the caller's stack and 3 + 8 + 1 gas
\* spent.
C12_Witness ==
    /\ Returned
    /\ ~disable_gas
    /\ ret = "Stop"
    /\ FeedsStaticJump(1)
    /\ bytecode.insts[2].opcode = JUMP
    /\ visits[1] = 1
    /\ stack_len = args.stack_len
    /\ stack = InitialStack(args.stack_len)
    /\ GasSpent = 12

\* The instruction at the pc that the push before instruction j carries.
PushedJumpdest(j) ==
    CHOOSE k \in DOMAIN bytecode.insts :
        /\ bytecode.insts[k].opcode = JUMPDEST
        /\ bytecode.insts[k].pc = GetImmOf(bytecode.raw, bytecode.insts[j - 1])

\* C13: a JUMP right after a PUSHn that carries the pc of a JUMPDEST continues
\* at that JUMPDEST and reads no stack word; a JUMPI there pops one word, the
\* condition, and continues at the JUMPDEST if it is non-zero and at the next
\* instruction if it is zero.
C13_StaticJump ==
    [][(block = "logic" /\ IsJump(Data) /\ FeedsStaticJump(current_inst - 1))
       => IF Data.opcode = JUMP
          THEN /\ current_inst' = PushedJumpdest(current_inst)
               /\ block' = "entry"
               /\ ret' = "None"
               /\ stack_len' = stack_len
               /\ stack' = stack
          ELSE stack_len >= 1 =>
               /\ current_inst' = IF stack[stack_len - 1] # 0
                                  THEN PushedJumpdest(current_inst)
                                  ELSE current_inst + 1
               /\ block' = "entry"
               /\ ret' = "None"
               /\ stack_len' = stack_len - 1
               /\ stack' = stack]_vars

\* A loop closed by a static JUMPI took the jump once and fell through once.
C13_Witness ==
    /\ Returned
    /\ ~disable_gas
    /\ ret = "Stop"
    /\ \E j \in DOMAIN bytecode.insts :
          /\ bytecode.insts[j].opcode = JUMPI
          /\ FeedsStaticJump(j - 1)
          /\ visits[j] = 2
          /\ visits[PushedJumpdest(j)] = 2
          /\ visits[j + 1] = 1

\* The JUMPDEST instructions at pc target, target taken at its full width.
JumpdestsAt(target) ==
    {k \in DOMAIN bytecode.insts :
        bytecode.insts[k].opcode = JUMPDEST /\ bytecode.insts[k].pc = target}

\* C14: a dynamic JUMP, or a dynamic JUMPI with a non-zero condition, hands
\* its whole target word to the jump table, which continues at the JUMPDEST
\* whose pc equals the target and returns InvalidJump for every other value:
\* another pc, a 0x5B byte inside push data, a value above the index width.
C14_DynamicJumpValidity ==
    [][/\ (/\ block = "logic"
           /\ IsJump(Data)
           /\ ~HasStaticPush(bytecode.insts, current_inst)
           /\ stack_len >= StackInputs(Data.opcode)
           /\ (Data.opcode = JUMPI => stack[stack_len - 2] # 0))
          => (block' = "dynamic_jump_table" /\ jump_index' = stack[stack_len - 1])
       /\ (block = "dynamic_jump_table" /\ bytecode.has_dynamic_jumps)
          => IF JumpdestsAt(jump_index) # {}
             THEN current_inst' \in JumpdestsAt(jump_index) /\ block' = "entry"
             ELSE block' = "dynamic_jump_fail"
       /\ (block = "dynamic_jump_fail" /\ bytecode.has_dynamic_jumps)
          => (block' = "ret" /\ ret' = "InvalidJump")]_vars

\* The condition word of the JUMPI at current_inst: below the target, or on
\* top when the target's push was resolved and left out.
JumpiCondSlot ==
    IF FeedsStaticJump(current_inst - 1) THEN stack_len - 1 ELSE stack_len - 2

\* C15: a JUMPI whose condition word is zero continues at the next
\* instruction, whatever its target: a dynamic one that is no JUMPDEST, or a
\* pushed one that resolves to no JUMPDEST (INVALID_JUMP).
C15_JumpiZeroFallsThrough ==
    [][(/\ block = "logic"
        /\ Data.opcode = JUMPI
        /\ JumpiCondSlot >= 0
        /\ stack[JumpiCondSlot] = 0)
       => (/\ ret' = "None"
           /\ block' = "entry"
           /\ current_inst' = current_inst + 1)]_vars

\* Control is in the instruction that follows the last opcode of the code.
PastTheEnd ==
    /\ current_inst = Len(Decode(bytecode.raw, bytecode.spec_id, 0, <<>>)) + 1
    /\ current_inst = Len(bytecode.insts)

\* C16: an execution that runs past the last opcode of the bytecode, the empty
\* bytecode included, returns Stop; the steps it takes there charge no gas and
\* leave the stack and its length as the last opcode left them.
C16_RunsPastEnd ==
    [][(PastTheEnd /\ block \in {"entry", "logic"})
       => (/\ gas' = gas
           /\ stack' = stack
           /\ stack_len' = stack_len
           /\ IF block = "entry"
              THEN block' = "logic" /\ ret' = "None"
              ELSE block' = "ret" /\ ret' = "Stop")]_vars

\* [PUSH0] ran off its end: Stop, one word pushed, 2 gas spent.
C16_Witness ==
    /\ Returned
    /\ PastTheEnd
    /\ ~disable_gas
    /\ bytecode.raw = <<PUSH0>>
    /\ ret = "Stop"
    /\ stack_len = args.stack_len + 1
    /\ stack[stack_len - 1] = 0
    /\ GasSpent = 2

\* The operands of the two-operand opcode about to be lowered.
Top == stack[stack_len - 1]

Below == stack[stack_len - 2]

\* C17: DIV and MOD by 0 yield 0; SDIV by 0 yields 0 and SDIV(I256_MIN, -1)
\* yields I256_MIN; SMOD by 0 yields 0 and otherwise the remainder with the
\* sign of the dividend; every other pair yields the quotient or remainder
\* rounded towards zero.  The dividend is the top of the stack.
C17_DivisionResults ==
    [][(Lowered(DivOps) /\ stack_len >= 2)
       => (/\ stack'[stack_len - 2] = EvmBinOp(Data.opcode, Top, Below)
           /\ stack_len' = stack_len - 1)]_vars

\* Bit i of a word.
BitOf(x, i) == (x \div (2 ^ i)) % 2

\* C18: SIGNEXTEND with ext on top of x leaves x as it is when ext is at least
\* the word's bytes less one (31 for 256 bits); otherwise the result keeps the
\* bits 0..8*ext+7 of x and has bit 8*ext+7 of x in every bit above.
C18_Signextend ==
    [][(Lowered({SIGNEXTEND}) /\ stack_len >= 2)
       => (/\ stack_len' = stack_len - 1
           /\ IF Top >= WordBytes - 1
              THEN stack'[stack_len - 2] = Below
              ELSE \A i \in 0..(WordBits - 1) :
                      BitOf(stack'[stack_len - 2], i) =
                          IF i <= 8 * Top + 7 THEN BitOf(Below, i)
                          ELSE BitOf(Below, 8 * Top + 7))]_vars

\* tests::arith::signextend6: SIGNEXTEND(0, 0x80) returned -0x80.
C18_Witness ==
    /\ Returned
    /\ ret = "Stop"
    /\ bytecode.raw = <<SIGNEXTEND>>
    /\ args.a = 0
    /\ args.b = 128
    /\ stack_len = 1
    /\ stack[0] = MaxWord - 127

\* C19: SHL, SHR and SAR shift the word below the top by the amount on top;
\* an amount of the width (256) or more gives 0 for SHL and SHR, and for SAR 0
\* when the value is non-negative and all ones when it is negative, as in the
\* reference interpreter.
C19_ShiftResults ==
    [][(Lowered(ShiftOps) /\ stack_len >= 2)
       => (/\ stack_len' = stack_len - 1
           /\ stack'[stack_len - 2] =
                 IF Top >= WordBits
                 THEN (IF Data.opcode = SAR /\ Below >= I256_MIN THEN MaxWord ELSE 0)
                 ELSE EvmBinOp(Data.opcode, Top, Below))]_vars

\* The opcodes whose two operands are not interchangeable.
OrderedOps == {SUB, LT, GT, SLT, SGT} \cup DivOps

\* C20: SUB, DIV, SDIV, MOD, SMOD, LT, GT, SLT and SGT take the top of the
\* stack as their first operand and the word below as their second (SUB is
\* top minus below, wrapping; a quotient or remainder is taken wherever the
\* division is one, i.e. the second operand is not 0 and the pair is not
\* I256_MIN, -1); LT, GT, SLT, SGT, EQ and ISZERO yield 0 or 1 and nothing
\* else.
C20_OperandOrder ==
    [][/\ (/\ Lowered(OrderedOps)
           /\ stack_len >= 2
           /\ (Data.opcode \in DivOps =>
                  Below # 0 /\ ~(Top = I256_MIN /\ Below = MaxWord)))
          => stack'[stack_len - 2] = EvmBinOp(Data.opcode, Top, Below)
       /\ (Lowered(CmpOps) /\ stack_len >= 2)
          => (/\ stack'[stack_len - 2] \in {0, 1}
              /\ stack'[stack_len - 2] = EvmBinOp(Data.opcode, Top, Below))
       /\ (Lowered({ISZERO}) /\ stack_len >= 1)
          => stack'[stack_len - 1] = (IF Top = 0 THEN 1 ELSE 0)]_vars

\* tests::arith::sub1: SUB with 3 on top of 2 returned 1.
C20_Witness ==
    /\ Returned
    /\ ret = "Stop"
    /\ bytecode.raw = <<SUB>>
    /\ args.a = 3
    /\ args.b = 2
    /\ stack_len = 1
    /\ stack[0] = 1

\* Byte k of a word, counted from its most significant byte.
BeByte(word, k) == (word \div (256 ^ (WordBytes - 1 - k))) % 256

\* C21: CALLDATALOAD replaces the index on top of the stack by 0 when the
\* index, as a whole word, is at least the input length; otherwise by the
\* big-endian word of the input bytes from the index on, as many as there
\* are up to a word's worth, with zero bytes after them.
C21_Calldataload ==
    [][(Lowered({CALLDATALOAD}) /\ stack_len >= 1)
       => (/\ stack_len' = stack_len
           /\ \A k \in 0..(WordBytes - 1) :
                 BeByte(stack'[stack_len - 1], k) =
                     IF Top + k < Len(contract.input)
                     THEN contract.input[Top + k + 1]
                     ELSE 0
           /\ stack'[stack_len - 1] < Modulus
           /\ ret' = "None")]_vars

\* tests::calldata::calldataload2: the last input byte alone, zeros after it.
C21_Witness ==
    /\ Returned
    /\ ret = "Stop"
    /\ Len(contract.input) = WordBytes + 2
    /\ args.index = WordBytes + 1
    /\ stack_len = 1
    /\ stack[0] = 170 * 256 ^ (WordBytes - 1)

\* The opcodes that end the function after a callback, with the words they
\* pop, and the ones among them behind the static-call guard.
CallbackEnders == {RETURN, REVERT, SELFDESTRUCT, CREATE, CREATE2}

StaticGuarded22 == {SELFDESTRUCT, CREATE, CREATE2}

\* C22: STOP returns Stop and INVALID returns InvalidFEOpcode and neither
\* touches the stack or the host; RETURN and REVERT pop two words, call
\* DoReturn and return Return or Revert; SELFDESTRUCT pops one word, calls
\* SelfDestruct and returns SelfDestruct; CREATE and CREATE2 pop three and
\* four words, call Create and return CallOrCreate; when the callback does
\* not answer Continue its answer is what is returned.  (With the words on
\* the stack and, for the guarded three, outside a static call.)
C22_ReturningOpcodes ==
    [][/\ Lowered({STOP, INVALID})
          => /\ ret' = (IF Data.opcode = STOP THEN "Stop" ELSE "InvalidFEOpcode")
             /\ Returned'
             /\ UNCHANGED <<stack, stack_len, host>>
       /\ LET opcode == Data.opcode
              popped == CASE opcode \in {RETURN, REVERT} -> 2
                          [] opcode = SELFDESTRUCT -> 1
                          [] opcode = CREATE -> 3
                          [] OTHER -> 4
              called == CASE opcode \in {RETURN, REVERT} -> "DoReturn"
                          [] opcode = SELFDESTRUCT -> "SelfDestruct"
                          [] OTHER -> "Create"
              status == CASE opcode = RETURN -> "Return"
                          [] opcode = REVERT -> "Revert"
                          [] opcode = SELFDESTRUCT -> "SelfDestruct"
                          [] OTHER -> "CallOrCreate"
          IN (/\ Lowered(CallbackEnders)
              /\ stack_len >= popped
              /\ ~(opcode \in StaticGuarded22 /\ ecx.is_static))
             => /\ stack_len' = stack_len - popped
                /\ stack' = stack
                /\ host' = host \cup {called}
                /\ Returned'
                /\ ret' = IF ecx.host_fails THEN HostFailure ELSE status]_vars

\* CREATE2 with four words and a Create callback that answers Continue, and
\* a SELFDESTRUCT whose callback does not.
C22_Witness ==
    /\ Returned
    /\ Data.opcode \in {CREATE2, SELFDESTRUCT}
    /\ \/ Data.opcode = CREATE2 /\ ret = "CallOrCreate" /\ "Create" \in host
       \/ Data.opcode = SELFDESTRUCT /\ ret = HostFailure /\ "SelfDestruct" \in host

\* C23: CALL, CALLCODE, DELEGATECALL and STATICCALL are translated to a call
\* of a callback followed by a return of CallOrCreate, so that a bytecode in
\* which one of them is live compiles and executing it serves the callback
\* and returns CallOrCreate.
C23_CallOpcodes ==
    \A i \in DOMAIN bytecode.insts :
        (/\ block # "uncompiled"
         /\ IsLive(bytecode.insts, i)
         /\ bytecode.insts[i].opcode \in CallOps)
        => /\ CallCommon(bytecode.insts[i].opcode).callback # "none"
           /\ CallCommon(bytecode.insts[i].opcode).returns = "CallOrCreate"
           /\ Terminator(bytecode.insts, i) # "none"
           /\ block # "compile_error"

\* The opcodes lowered through callback_ir, with the words on the stack and
\* past the static-call guard: the step that calls the callback.
CallsStatusCallback ==
    /\ Lowered({SSTORE, RETURN, REVERT, SELFDESTRUCT, CREATE, CREATE2} \cup (LOG0..LOG4))
    /\ stack_len >= StackInputs(Data.opcode)
    /\ ~(Data.opcode \notin {RETURN, REVERT} /\ ecx.is_static)

\* C24: when a status-returning callback answers something other than
\* Continue the function returns that answer at once: no other instruction is
\* entered and no gas is charged, then or later; when it answers Continue the
\* instruction goes on: SSTORE and LOGn branch to the next instruction, the
\* others return their own status.
C24_CallbackStatus ==
    [][/\ (CallsStatusCallback /\ ecx.host_fails)
          => /\ Returned'
             /\ ret' = "FatalExternalError"
             /\ UNCHANGED <<gas, current_inst, visits>>
       /\ (CallsStatusCallback /\ ~ecx.host_fails)
          => /\ ret' \notin {"FatalExternalError", "Continue"}
             /\ IF Data.opcode \in {SSTORE} \cup (LOG0..LOG4)
                THEN /\ current_inst' = current_inst + 1
                     /\ ~Returned'
                     /\ ret' = "None"
                ELSE Returned'
       /\ Returned => UNCHANGED <<gas, current_inst, visits, ret>>]_vars

\* An SSTORE whose callback failed, with a PC after it that has not run.
C24_Witness ==
    /\ Returned
    /\ ret = "FatalExternalError"
    /\ Data.opcode = SSTORE
    /\ "Sstore" \in host
    /\ bytecode.raw = <<SSTORE, PC>>
    /\ gas.limit >= 2
    /\ gas.remaining = gas.limit
    /\ stack_len = args.stack_len - 2

\* C25: between two calls of free_all_functions the n-th compile, failed
\* ones included, uses the symbol evm_bytecode_n, no two functions of the
\* module share a symbol, and a free_all_functions leaves the count at 0
\* with an empty module.
C25_UniqueSymbols ==
    /\ jit.last.name # <<>> => jit.last.name = <<"evm_bytecode", jit.calls - 1>>
    /\ \A i, j \in DOMAIN jit.module :
          i # j => jit.module[i].name # jit.module[j].name
    /\ jit.last.steps = <<"free_all_functions">>
          => jit.function_counter = 0 /\ jit.module = <<>>

IsPrefix(run, full) ==
    /\ Len(run) <= Len(full)
    /\ \A i \in 1..Len(run) : run[i] = full[i]

\* The dumps of one stage that are switched on.
UnoptDumps(IR, disasm) ==
    (IF jit.out_dir THEN IR ELSE <<>>)
    \o (IF jit.out_dir /\ jit.dump_assembly /\ jit.dump_unopt_assembly
        THEN disasm ELSE <<>>)

OptDumps ==
    (IF jit.out_dir THEN <<"dump opt IR">> ELSE <<>>)
    \o (IF jit.out_dir /\ jit.dump_assembly THEN <<"dump opt disasm">> ELSE <<>>)

\* What every compile does whatever the order of its steps: it runs a prefix
\* of the order, all of it when it succeeds, stops at the step that failed,
\* and hands out the function's address only when verify and optimise ran
\* and did not fail.
CompileRuns(order) ==
    (jit'.calls = jit.calls + 1)
    => LET run == jit'.last.steps
       IN /\ run # <<>>
          /\ IsPrefix(run, order)
          /\ jit'.last.result \in {"ok", "error"}
          /\ jit'.last.result = "ok"
                => /\ run = order
                   /\ ModuleVerifies(jit'.module)
                   /\ jit'.handed = jit.handed \cup {jit'.last.name}
          /\ jit'.last.result = "error" => jit'.handed = jit.handed
          /\ (run # order /\ run[Len(run)] # "verify")
                => jit'.last.result = "error"
          /\ (~ModuleVerifies(jit'.module) /\ "verify" \in {run[i] : i \in 1..Len(run)})
                => jit'.last.result = "error" /\ run[Len(run)] = "verify"

\* C26 (as stated): the steps of a compile run in the order translate,
\* verify, dump of the unoptimised code when dumping is on, optimise, dump of
\* the optimised code when dumping is on, resolve the entry address; a failing
\* step ends the compile and no address is handed out for a function that
\* failed verification or optimisation.
C26_ClaimedOrder ==
    [][CompileRuns(<<"translate", "verify">>
                   \o UnoptDumps(<<"dump unopt IR">>, <<"dump unopt disasm">>)
                   \o <<"optimize">> \o OptDumps \o <<"finalize">>)]_vars

\* C26 (amended): the order is translate, dump of the unoptimised IR when
\* dumping is on, verify, dump of the unoptimised disassembly when dumping
\* and both assembly switches are on, optimise, dump of the optimised IR and
\* disassembly when dumping is on, resolve the entry address; a failing step
\* ends the compile and no address is handed out for a function that failed
\* verification or optimisation.
C26_StepOrder ==
    [][CompileRuns(<<"translate">>
                   \o (IF jit.out_dir THEN <<"dump unopt IR">> ELSE <<>>)
                   \o <<"verify">>
                   \o (IF jit.out_dir /\ jit.dump_assembly /\ jit.dump_unopt_assembly
                       THEN <<"dump unopt disasm">> ELSE <<>>)
                   \o <<"optimize">> \o OptDumps \o <<"finalize">>)]_vars

\* A compile with every dump on that ran all eight steps and handed out its
\* function.
C26_Witness ==
    /\ jit.out_dir /\ jit.dump_assembly /\ jit.dump_unopt_assembly
    /\ Len(jit.last.steps) = 8
    /\ jit.last.steps[2] = "dump unopt IR"
    /\ jit.last.result = "ok"
    /\ jit.last.name \in jit.handed

\* C27: whatever number of backends the threads of the process construct,
\* the initialisation body has run at most once, at most one thread is in it,
\* and a thread is past the gate only after that one run has finished.
C27_InitOnce ==
    /\ llvm.runs <= 1
    /\ Cardinality({t \in Threads : llvm.pc[t] = "body"}) <= 1
    /\ \A t \in Threads :
          (llvm.pc[t] = "past_gate" \/ llvm.built[t] > 0)
          => /\ llvm.runs = 1
             /\ llvm.once = "complete"
             /\ llvm.native # "none"
    /\ (\E t \in Threads : llvm.pc[t] = "body") => llvm.runs = 0

\* Two threads past the gate at once, one of them for its second backend,
\* after a single run of the body.
C27_Witness ==
    /\ llvm.runs = 1
    /\ \E t, u \in Threads :
          /\ t # u
          /\ llvm.pc[t] = "past_gate"
          /\ llvm.pc[u] = "past_gate"
          /\ llvm.built[u] = 1

\* The jumps that are lowered as a pop of the target and a branch to the
\* jump table.
LoweredDynamic(insts) ==
    {i \in DOMAIN insts :
        /\ IsLive(insts, i)
        /\ insts[i].opcode \in {JUMP, JUMPI}
        /\ insts[i].flags \cap {"STATIC_JUMP", "INVALID_JUMP"} = {}}

\* C28: without has_dynamic_jumps no execution is in the jump-table block or
\* the jump-fail block (both `unreachable` then): no jump is lowered as a
\* dynamic jump, and every block an execution enters is the block of a live
\* instruction.
C28_NoUnreachableBlock ==
    /\ LoweredDynamic(bytecode.insts) # {} => bytecode.has_dynamic_jumps
    /\ ~bytecode.has_dynamic_jumps
          => /\ block \notin {"dynamic_jump_table", "dynamic_jump_fail", "unreachable"}
             /\ block \in {"entry", "logic"} => IsLive(bytecode.insts, current_inst)

\* [PUSH1 4, JUMP, PC, JUMPDEST]: a static jump over a dead PC to the
\* JUMPDEST, then Stop.
C28_Witness ==
    /\ Returned
    /\ ret = "Stop"
    /\ ~bytecode.has_dynamic_jumps
    /\ \E i, j, k \in DOMAIN bytecode.insts :
          /\ "STATIC_JUMP" \in bytecode.insts[i].flags
          /\ "DEAD_CODE" \in bytecode.insts[j].flags
          /\ bytecode.insts[i].data = k
          /\ i < j /\ j < k
          /\ bytecode.insts[k].opcode = JUMPDEST
          /\ (disable_gas \/ visits[k] = 1)

\* Outputs minus inputs of an opcode.
DepthChange(opcode) ==
    CASE opcode \in PushOps \cup (DUP1..DUP16) -> 1
      [] opcode \in (SWAP1..SWAP16) \cup UnOps \cup {STOP, INVALID, JUMPDEST, CALLDATALOAD} -> 0
      [] opcode \in BinOps \cup {POP, JUMP, SELFDESTRUCT} -> 0 - 1
      [] opcode \in {JUMPI, SSTORE, TSTORE, RETURN, REVERT, CREATE} -> 0 - 2
      [] opcode \in LOG0..LOG4 -> 0 - (2 + (opcode - LOG0))
      [] opcode = CREATE2 -> 0 - 3
      [] OTHER -> 0

NotAFailure == {"None", "Stop", "Return", "Revert", "SelfDestruct", "CallOrCreate"}

\* An instruction that is part of a resolved static jump: the push whose
\* value is never pushed and the jump that does not pop it.
InStaticJumpPair(d) ==
    \/ "SKIP_LOGIC" \in d.flags
    \/ d.opcode \in {JUMP, JUMPI} /\ "STATIC_JUMP" \in d.flags

\* C29: after every opcode that completes without a failure status the stack
\* length is the length before it minus its inputs plus its outputs (LOGn
\* -(2+n), CREATE -2, CREATE2 -3, DUPn +1, SWAPn 0, PUSHn +1, ...).  Stated
\* for the opcodes outside a resolved static jump, whose push and jump are
\* lowered as one and change the length by their sum.
C29_StackDepth ==
    [][(block = "logic" /\ ret' \in NotAFailure /\ ~InStaticJumpPair(Data))
       => stack_len' = stack_len + DepthChange(Data.opcode)]_vars

\* The slots whose word a step changes.
Written == {i \in 0..(STACK_CAP - 1) : stack'[i] # stack[i]}

\* C30: an opcode lowered inline with k inputs changes no slot below len - k;
\* SWAPn changes at most the slots len - 1 and len - 1 - n, DUPn and PUSHn at
\* most the slot len, JUMPDEST none (len is the length before the opcode).
C30_FrameEffect ==
    [][block = "logic"
       => LET opcode == Data.opcode
              len == stack_len
          IN /\ \A i \in Written : i >= len - StackInputs(opcode)
             /\ opcode \in SWAP1..SWAP16
                   => Written \subseteq {len - 1, len - 1 - (opcode - SWAP1 + 1)}
             /\ opcode \in (DUP1..DUP16) \cup PushOps => Written \subseteq {len}
             /\ opcode = JUMPDEST => Written = {}]_vars

\* The loop of tests::control_flow after its SWAP1 and SUB: SWAP1 exchanged
\* the two top slots, SUB wrote the lower of them, the slot below kept its
\* word.
C30_Witness ==
    /\ bytecode.raw = <<PUSH1, 2, JUMPDEST, PUSH1, 1, SWAP1, SUB, DUP1, PUSH1, 2, JUMPI>>
    /\ block = "entry"
    /\ Data.opcode = DUP1
    /\ args.stack_len = 1
    /\ stack_len = 2
    /\ stack[0] = 1
    /\ stack[1] = 1
    /\ stack[2] = 2

\* The stack addresses, as slot indexes, that the lowering of the current
\* instruction loads from and stores to once its length checks have passed:
\* popn and pop_sp take the k slots below len, a push stores at len, dup(n)
\* loads sp_from_top(len, n), swap(n) loads and stores sp_from_top(len, 1)
\* and sp_from_top(len, n + 1).
OperandSlots(d, len) ==
    LET opcode == d.opcode
    IN IF opcode \in SWAP1..SWAP16
       THEN LET n == opcode - SWAP1 + 1
            IN IF SwapCheckFails(len, n) THEN {}
               ELSE {SpFromTop(len, 1), SpFromTop(len, n + 1)}
       ELSE IF opcode \in DUP1..DUP16
       THEN LET n == opcode - DUP1 + 1
            IN IF LoadLenAtLeastFails(len, n) THEN {} ELSE {SpFromTop(len, n)}
       ELSE IF LoadLenAtLeastFails(len, StackInputs(opcode)) THEN {}
       ELSE (len - StackInputs(opcode))..(len - 1)

PushSlots(d, len) ==
    IF /\ d.opcode \in PushOps \cup (DUP1..DUP16)
       /\ ~LoadLenAtLeastFails(len, StackInputs(d.opcode))
       /\ ~LoadLenForPushFails(len, 1)
    THEN {len} ELSE {}

\* C31: every slot compiled code reads or writes has an index in [0, 1024)
\* and every slot read as an operand lies below the stack length, for every
\* opcode, DUPn and SWAPn at the smallest length that passes their check
\* included.
C31_SlotsInBounds ==
    (block = "logic" /\ ~IsSkipped(Data))
    => /\ \A i \in OperandSlots(Data, stack_len) \cup PushSlots(Data, stack_len) :
             0 <= i /\ i < STACK_CAP
       /\ \A i \in OperandSlots(Data, stack_len) : i < stack_len

\* C32: a PUSHn marked SKIP_LOGIC that is executed with 1024 words on the
\* stack returns StackOverflow, which is what the reference interpreter
\* returns for the bytecode.
C32_SkippedPushOverflows ==
    [][(/\ block = "logic"
        /\ IsSkipped(Data)
        /\ Data.opcode \in PUSH1..PUSH32
        /\ stack_len = STACK_CAP)
       => /\ Returned'
          /\ ret' = "StackOverflow"
          /\ ret' = Interpreted.ret]_vars

\* C33: the lowering of DIV, SDIV, MOD and SMOD never evaluates udiv, urem or
\* srem with a zero divisor, nor sdiv or srem on (I256_MIN, -1): whenever the
\* opcode runs with its two operands, the primitive it evaluates is defined
\* on them.
C33_DivisionGuarded ==
    (/\ block = "logic"
     /\ ~IsSkipped(Data)
     /\ Data.opcode \in DivOps
     /\ stack_len >= 2)
    => ~EvaluatesUndefined(Data.opcode, Top, Below)

\* C34: a static charge that gas.remaining covers but gas.remaining_nomem
\* does not is not refused: remaining drops by the charge, remaining_nomem
\* wraps modulo 2^64, nothing is returned and the opcode's logic runs next.
C34_NomemWraps ==
    [][(/\ block = "entry"
        /\ EntryKind(Data) = "gas"
        /\ StaticGasDue(Data, disable_gas) > 0
        /\ gas.remaining_nomem < StaticGasDue(Data, disable_gas)
        /\ StaticGasDue(Data, disable_gas) <= gas.remaining)
       => /\ gas'.remaining = gas.remaining - StaticGasDue(Data, disable_gas)
          /\ gas'.remaining_nomem =
                 gas.remaining_nomem - StaticGasDue(Data, disable_gas) + GasModulus
          /\ block' = "logic"
          /\ ret' = "None"]_vars

\* PUSH0 (2 gas) was charged against remaining = 40, remaining_nomem = 0.
C34_Witness ==
    /\ block = "logic"
    /\ Data.opcode = PUSH0
    /\ args.remaining = 40
    /\ args.remaining_nomem = 0
    /\ gas.remaining = 38
    /\ gas.remaining_nomem = GasModulus - 2
    /\ ret = "None"

\* C35: with gas accounting disabled no step changes gas.remaining or
\* gas.remaining_nomem and none returns OutOfGas, whatever the meters hold;
\* and with accounting on, an opcode whose static gas is 0 goes to its logic
\* with both meters untouched.
C35_GasDisabled ==
    [][/\ disable_gas => (gas' = gas /\ ret' # "OutOfGas")
       /\ (/\ block = "entry"
           /\ EntryKind(Data) = "gas"
           /\ Data.static_gas = 0)
          => (gas' = gas /\ block' = "logic" /\ ret' = "None")]_vars

\* Three charged opcodes ran to the end on an empty meter.
C35_Witness ==
    /\ disable_gas
    /\ bytecode.raw = <<PUSH1, 1, PUSH1, 2, ADD>>
    /\ Returned
    /\ ret = "Stop"
    /\ stack_len = 1
    /\ args.remaining = 0
    /\ gas.remaining = 0
    /\ gas.remaining_nomem = args.remaining_nomem

\* C36: between two calls of free_all_functions each callback is added to the
\* module at most once, however many compiles use it; a compile adds exactly
\* the callbacks it uses that the cache does not hold and caches them; every
\* cached callback is declared in the current module; free_all_functions
\* leaves the cache empty, so the next use adds the callback again.
C36_CallbackCache ==
    [][/\ \A cb \in CallbackNames : jit'.adds[cb] <= 1
       /\ \A cb \in jit'.callbacks : jit'.declared[cb] >= 1
       /\ \A raw \in CachePrograms : \A fail \in CacheStepFailures :
             Compile(raw, fail)
             => \A cb \in DeclaredCallbacks(Analyze(raw, CANCUN).insts) :
                   /\ cb \in jit'.callbacks
                   /\ jit'.declared[cb] =
                          jit.declared[cb] + (IF cb \in jit.callbacks THEN 0 ELSE 1)
       /\ \A fail \in FreeFailures :
             FreeAllFunctions(fail)
             => /\ jit'.callbacks = {}
                /\ \A cb \in CallbackNames : jit'.adds[cb] = 0]_vars

\* Three compiles in a row, each using Sstore or Log, declared each of the
\* two once.
C36_Witness ==
    /\ jit.calls = 3
    /\ Len(jit.module) = 3
    /\ jit.callbacks = {"Sstore", "Log"}
    /\ jit.declared["Sstore"] = 1
    /\ jit.declared["Log"] = 1

\* C37: a compile of a bytecode whose own function is well formed, with no
\* failure of the backend or the file system during it, succeeds whatever
\* compiles ran before it on the same instance, failed ones included.
C37_UsableAfterError ==
    [][\A raw \in DriverPrograms :
          (/\ VerifyFunction(Analyze(raw, CANCUN).insts)
           /\ Compile(raw, "none"))
          => jit'.last.result = "ok"]_vars

\* C38: a free_all_functions whose backend call returns an error leaves the
\* function counter and the callback cache as they were.
C38_FailedFreeKeepsState ==
    [][\A fail \in FreeFailures \ {"none"} :
          FreeAllFunctions(fail)
          => /\ jit'.last.result = "error"
             /\ jit'.function_counter = jit.function_counter
             /\ jit'.callbacks = jit.callbacks]_vars

\* C39: once the one run of the initialisation body has failed, every call of
\* new_inner that gets past the gate returns an error.
C39_InitFailureSticks ==
    [][\A t \in Threads :
          (llvm.native = "Err" /\ Construct(t))
          => llvm'.init_result[t] = "returned Err"]_vars

====
